---- MODULE Spec2Model ----
(***************************************************************************)
(* Motor Control Lab: the DC motor plant, the PID controller, the actuator *)
(* modifier chain, the disturbance decorator and the fixed-step runner.    *)
(*                                                                         *)
(* float64 values are modelled as exact rationals <<n, d>> (d > 0, lowest  *)
(* terms), so two values are equal exactly when their pairs are equal.     *)
(* Rounding and infinities are outside the model; NaN appears only as the  *)
(* settling time analysis.Compute returns when there is none.              *)
(***************************************************************************)
EXTENDS Integers, Sequences, FiniteSets, TLC

VARIABLES
    motor,   \* sim.DCMotor: its fields
    ctrl,    \* pid.Controller: its fields
    wrap,    \* wrap.DisturbedSystem around motor (present = FALSE: sys is the bare motor)
    cfg,     \* experiment.StepConfig handed to RunStep
    rs,      \* the frame of RunStep: position, locals, the samples appended so far
    last,    \* the most recent call made on an object: op, arguments, state before, result
    calls,   \* how many calls RunStep / the caller has made so far, per operation
    enclosure, \* bounds on the motor's velocity n Steps into a long run (SpecMotor)
    shadow   \* a second run of RunStep (motor, ctrl, wrap, rs) on an equal configuration

vars == <<motor, ctrl, wrap, cfg, rs, last, calls, enclosure, shadow>>

\* A nil Modifier interface value.
NilModifier == [kind |-> "nil"]

\* A map[string]float64 value is a reference: the index of the map in the
\* sequence of the maps allocated so far (rs.maps), whose entry is the set of
\* the map's <<key, value>> pairs.  The nil map is no index.
NilMap == 0
NoShadow == [present |-> FALSE]

-----------------------------------------------------------------------------
(* Exact rational arithmetic standing for float64 arithmetic.              *)

RECURSIVE GCD(_, _)
GCD(a, b) == IF b = 0 THEN a ELSE GCD(b, a % b)

IAbs(x) == IF x < 0 THEN -x ELSE x

\* n/d in lowest terms with a positive denominator (d # 0).
Q(n, d) ==
    LET s == IF d < 0 THEN -1 ELSE 1
        g == GCD(IAbs(n), IAbs(d))
    IN  <<(s * n) \div g, (s * d) \div g>>

R(n) == <<n, 1>>
Zero == R(0)

RNeg(a) == <<-a[1], a[2]>>

RAdd(a, b) ==
    LET g == GCD(a[2], b[2])
    IN  Q(a[1] * (b[2] \div g) + b[1] * (a[2] \div g), (a[2] \div g) * b[2])

RSub(a, b) == RAdd(a, RNeg(b))

RMul(a, b) ==
    LET g1 == GCD(IAbs(a[1]), b[2])
        g2 == GCD(IAbs(b[1]), a[2])
    IN  Q((a[1] \div g1) * (b[1] \div g2), (a[2] \div g2) * (b[2] \div g1))

\* a / b for b # 0.
RDiv(a, b) == RMul(a, IF b[1] < 0 THEN <<-b[2], -b[1]>> ELSE <<b[2], b[1]>>)

RLt(a, b) ==
    LET g == GCD(a[2], b[2])
    IN  a[1] * (b[2] \div g) < b[1] * (a[2] \div g)

RLe(a, b) == a = b \/ RLt(a, b)
RGt(a, b) == RLt(b, a)
RGe(a, b) == RLe(b, a)

\* math.Abs, math.Min, math.Max
RAbs(a) == <<IAbs(a[1]), a[2]>>
RMin(a, b) == IF RLt(b, a) THEN b ELSE a
RMax(a, b) == IF RLt(a, b) THEN b ELSE a

\* int(x) for a float64 x: truncation toward zero.
TruncToInt(a) ==
    IF a[1] >= 0 THEN a[1] \div a[2] ELSE -((-a[1]) \div a[2])

-----------------------------------------------------------------------------
(* sim.DCMotor                                                             *)

clamp(x, lo, hi) == RMin(RMax(x, lo), hi)

NewDCMotor ==
    [ VelocityRPM        |-> Zero,
      GainRPMPerVolt     |-> R(100),
      TauSeconds         |-> Q(1, 2),
      MaxVoltage         |-> R(24),
      appliedVoltage     |-> Zero,
      disturbanceRPMPerS |-> Zero ]

DCMotor_Observe(m) == m.VelocityRPM

DCMotor_ActuateUnclamped(m, u) == [m EXCEPT !.appliedVoltage = u]

DCMotor_Actuate(m, u) ==
    [m EXCEPT !.appliedVoltage = clamp(u, RNeg(m.MaxVoltage), m.MaxVoltage)]

DCMotor_SetDisturbanceRPMPerS(m, d) == [m EXCEPT !.disturbanceRPMPerS = d]

DCMotor_CurrentDisturbanceRPMPerS(m) == m.disturbanceRPMPerS

\* A Step that consumes the disturbance: it is applied once and then cleared.
DCMotor_StepConsuming(m, dt) ==
    IF RLe(dt, Zero) THEN m
    ELSE LET target == RMul(m.GainRPMPerVolt, m.appliedVoltage)
             alpha  == RDiv(dt, m.TauSeconds)
         IN  [m EXCEPT !.VelocityRPM =
                           RAdd(@, RSub(RMul(alpha, RSub(target, @)),
                                        RMul(m.disturbanceRPMPerS, dt))),
                       !.disturbanceRPMPerS = Zero]

\* A Step whose disturbance term is divided by Tau as the drive term is.
DCMotor_StepScaledDisturbance(m, dt) ==
    IF RLe(dt, Zero) THEN m
    ELSE LET target == RMul(m.GainRPMPerVolt, m.appliedVoltage)
             alpha  == RDiv(dt, m.TauSeconds)
         IN  [m EXCEPT !.VelocityRPM =
                           RAdd(@, RSub(RMul(alpha, RSub(target, @)),
                                        RMul(m.disturbanceRPMPerS, alpha)))]

DCMotor_Step(m, dt) ==
    IF RLe(dt, Zero) THEN m
    ELSE LET target == RMul(m.GainRPMPerVolt, m.appliedVoltage)
             alpha  == RDiv(dt, m.TauSeconds)
         IN  [m EXCEPT !.VelocityRPM =
                           RAdd(@, RSub(RMul(alpha, RSub(target, @)),
                                        RMul(m.disturbanceRPMPerS, dt)))]

\* A velocity in millionths of an RPM, rounded down and rounded up.
FloorMicro(a) == (a[1] * 1000000) \div a[2]
CeilMicro(a) == -(((-a[1]) * 1000000) \div a[2])

\* No long run is under way.
NoEnclosure == [n |-> 0, lo |-> 0, hi |-> 0]

\* DCMotor.Step(dt) for 0 < dt <= Tau on a velocity known only to lie in
\* [e.lo, e.hi] millionths of an RPM: the update v + alpha * (target - v) - d * dt
\* does not decrease in v, so the lower bound steps with every rounding down
\* and the upper bound with every rounding up.  (The exact velocity after n
\* steps of 0.001 s has the denominator 20 * 500^(n-1).)
DCMotor_StepEnclosure(m, e, dt) ==
    LET target == RMul(m.GainRPMPerVolt, m.appliedVoltage)
        alpha  == RDiv(dt, m.TauSeconds)
        drop   == RMul(m.disturbanceRPMPerS, dt)
    IN  [ n  |-> e.n + 1,
          lo |-> e.lo + (((FloorMicro(target) - e.lo) * alpha[1]) \div alpha[2])
                      - CeilMicro(drop),
          hi |-> e.hi - (((e.hi - CeilMicro(target)) * alpha[1]) \div alpha[2])
                      - FloorMicro(drop) ]

-----------------------------------------------------------------------------
(* pid.Controller                                                          *)

ZeroTrace ==
    [ Target |-> Zero, Actual |-> Zero, Error |-> Zero,
      P |-> Zero, I |-> Zero, D |-> Zero,
      OutRaw |-> Zero, Out |-> Zero,
      Saturated |-> FALSE, Integrated |-> FALSE ]

New(kp, ki, kd) ==
    [ Kp |-> kp, Ki |-> ki, Kd |-> kd,
      OutMin |-> R(-24), OutMax |-> R(24),
      integral |-> Zero, prevError |-> Zero, hasPrev |-> FALSE ]

\* The result of Controller.Step: the controller afterwards, the trace written
\* through tr, and the returned command.
StepResult(c, tr, ret) == [c |-> c, tr |-> tr, ret |-> ret]

\* An early return that also remembers the error as the previous one.
Controller_StepNonPositiveDTRemembering(c, target, actual) ==
    StepResult([c EXCEPT !.prevError = RSub(target, actual), !.hasPrev = TRUE],
               [ZeroTrace EXCEPT !.Target = target, !.Actual = actual,
                                 !.Error = RSub(target, actual)],
               Zero)

\* An early return that forgets the previous error.
Controller_StepNonPositiveDTCooling(c, target, actual) ==
    StepResult([c EXCEPT !.hasPrev = FALSE],
               [ZeroTrace EXCEPT !.Target = target, !.Actual = actual,
                                 !.Error = RSub(target, actual)],
               Zero)

\* if dt <= 0 { *tr = Trace{Target, Actual, Error}; return 0 }
Controller_StepNonPositiveDT(c, target, actual) ==
    StepResult(c,
               [ZeroTrace EXCEPT !.Target = target, !.Actual = actual,
                                 !.Error = RSub(target, actual)],
               Zero)

\* A derivative term computed against prevError even on the first step.
Controller_dTermAlways(c, err, dt) ==
    RDiv(RMul(c.Kd, RSub(err, c.prevError)), dt)

\* dTerm := 0.0; if c.hasPrev { dTerm = c.Kd * (err - c.prevError) / dt }
Controller_dTerm(c, err, dt) ==
    IF c.hasPrev THEN RDiv(RMul(c.Kd, RSub(err, c.prevError)), dt) ELSE Zero

\* An anti-windup that freezes at a bound whatever the error's direction.
Controller_freezesAtEitherBound(c, err, outPred) ==
    RGe(outPred, c.OutMax) \/ RLe(outPred, c.OutMin)

\* (satHigh && err > 0) || (satLow && err < 0)
Controller_freezes(c, err, outPred) ==
    LET satHigh == RGe(outPred, c.OutMax)
        satLow  == RLe(outPred, c.OutMin)
    IN  (satHigh /\ RGt(err, Zero)) \/ (satLow /\ RLt(err, Zero))

\* A saturation flag that reports only the upper bound.
Controller_SaturatedHighOnly(out, outRaw) == RLt(out, outRaw)

\* Saturated: out != outRaw
Controller_Saturated(out, outRaw) == out # outRaw

Controller_Step(c, target, actual, dt) ==
    IF RLe(dt, Zero) THEN Controller_StepNonPositiveDT(c, target, actual)
    ELSE
    LET err      == RSub(target, actual)
        pTerm    == RMul(c.Kp, err)
        dTerm    == Controller_dTerm(c, err, dt)
        outNoI   == RAdd(pTerm, dTerm)
        outPred  == RAdd(outNoI, RMul(c.Ki, c.integral))
        frozen   == Controller_freezes(c, err, outPred)
        integral == IF frozen THEN c.integral
                    ELSE RAdd(c.integral, RMul(err, dt))
        iTerm    == RMul(c.Ki, integral)
        outRaw   == RAdd(RAdd(pTerm, iTerm), dTerm)
        out      == clamp(outRaw, c.OutMin, c.OutMax)
    IN  StepResult(
          [c EXCEPT !.integral = integral, !.prevError = err, !.hasPrev = TRUE],
          [ Target |-> target, Actual |-> actual, Error |-> err,
            P |-> pTerm, I |-> iTerm, D |-> dTerm,
            OutRaw |-> outRaw, Out |-> out,
            Saturated |-> Controller_Saturated(out, outRaw),
            Integrated |-> ~frozen ],
          out)

-----------------------------------------------------------------------------
(* modifier.Modifier: a DeadzoneModifier or a chain of modifiers           *)

DeadzoneModifier(th) == [kind |-> "deadzone", Threshold |-> th]

Chain(mods) == [kind |-> "chain", modifiers |-> mods]

\* A deadzone that passes a command outside the band through unshifted.
DeadzoneModifier_ModifyCutOff(m, u) ==
    IF RLt(RAbs(u), m.Threshold) THEN Zero ELSE u

DeadzoneModifier_Modify(m, u) ==
    LET absU == RAbs(u)
    IN  IF RLt(absU, m.Threshold) THEN Zero
        ELSE IF RGt(u, Zero) THEN RSub(absU, m.Threshold)
        ELSE RNeg(RSub(absU, m.Threshold))

RECURSIVE Modify(_, _)
RECURSIVE chain_Modify(_, _)
RECURSIVE chain_ModifyLastFirst(_, _)

\* A chain that applies its modifiers from the last to the first.
chain_ModifyLastFirst(mods, u) ==
    IF mods = <<>> THEN u
    ELSE Modify(Head(mods), chain_ModifyLastFirst(Tail(mods), u))


\* for _, mod := range c.modifiers { u = mod.Modify(u) }; return u
chain_Modify(mods, u) ==
    IF mods = <<>> THEN u
    ELSE chain_Modify(Tail(mods), Modify(Head(mods), u))

\* Dynamic dispatch of Modifier.Modify.
Modify(m, u) ==
    IF m.kind = "deadzone" THEN DeadzoneModifier_Modify(m, u)
    ELSE chain_Modify(m.modifiers, u)

-----------------------------------------------------------------------------
(* wrap.DisturbedSystem                                                    *)

StepDisturbanceConfig(enabled, startS, durationS, magnitude) ==
    [ Enabled |-> enabled, StartS |-> startS, DurationS |-> durationS,
      MagnitudeRPMPerS |-> magnitude ]

\* No wrapper: the system handed to RunStep is the motor itself.
NoDisturbedSystem ==
    [ present |-> FALSE, reporter |-> FALSE, receiver |-> TRUE,
      cfg |-> StepDisturbanceConfig(FALSE, Zero, Zero, Zero),
      t |-> Zero, lastDisturbanceRPMPerS |-> Zero ]

\* receiver: the inner system is a DisturbanceReceiver, as a DCMotor is.
NewDisturbedSystem(c) ==
    [ present |-> TRUE, reporter |-> TRUE, receiver |-> TRUE,
      cfg |-> c, t |-> Zero, lastDisturbanceRPMPerS |-> Zero ]

\* The wrapper around an inner system that is a System and no
\* DisturbanceReceiver, as the tests' mockSystem: the motor's Observe,
\* Actuate and Step without SetDisturbanceRPMPerS.
NewDisturbedSystemAroundPlainSystem(c) ==
    [NewDisturbedSystem(c) EXCEPT !.receiver = FALSE]

\* A plant that is a SignalReporter with no signals to report: Signals()
\* returns a non-nil empty map, as the interface allows.  Observe, Actuate
\* and Step are the motor's.
SilentReporter == [NoDisturbedSystem EXCEPT !.reporter = TRUE]

\* A schedule that is on whether or not it is enabled.
computeDisturbanceIgnoringEnabled(t, c) ==
    IF c.MagnitudeRPMPerS = Zero THEN Zero
    ELSE IF RLt(t, c.StartS) THEN Zero
    ELSE IF RGt(c.DurationS, Zero) /\ RGe(t, RAdd(c.StartS, c.DurationS)) THEN Zero
    ELSE c.MagnitudeRPMPerS

\* A schedule whose window also holds its end, StartS + DurationS.
computeDisturbanceClosedWindow(t, c) ==
    IF ~c.Enabled \/ c.MagnitudeRPMPerS = Zero THEN Zero
    ELSE IF RLt(t, c.StartS) THEN Zero
    ELSE IF RGt(c.DurationS, Zero) /\ RGt(t, RAdd(c.StartS, c.DurationS)) THEN Zero
    ELSE c.MagnitudeRPMPerS

computeDisturbance(t, c) ==
    IF ~c.Enabled \/ c.MagnitudeRPMPerS = Zero THEN Zero
    ELSE IF RLt(t, c.StartS) THEN Zero
    ELSE IF RGt(c.DurationS, Zero) /\ RGe(t, RAdd(c.StartS, c.DurationS)) THEN Zero
    ELSE c.MagnitudeRPMPerS

\* A system is the pair of the wrapper and the motor it wraps.
Sys(w, m) == [wrap |-> w, motor |-> m]

DisturbedSystem_Observe(w, m) == DCMotor_Observe(m)

DisturbedSystem_Actuate(w, m, u) == Sys(w, DCMotor_Actuate(m, u))

\* A Step that evaluates the schedule at the start of its interval.
DisturbedSystem_StepScheduleAtStart(w, m, dt) ==
    LET dist == computeDisturbance(w.t, w.cfg)
        m1   == DCMotor_SetDisturbanceRPMPerS(m, dist)
        m2   == DCMotor_Step(m1, dt)
    IN  Sys([w EXCEPT !.lastDisturbanceRPMPerS = dist, !.t = RAdd(w.t, dt)], m2)

\* A Step that delegates to the inner system before it pushes the
\* disturbance.
DisturbedSystem_StepPushingAfter(w, m, dt) ==
    LET dist == computeDisturbance(RAdd(w.t, dt), w.cfg)
        m1   == DCMotor_Step(m, dt)
        m2   == IF w.receiver THEN DCMotor_SetDisturbanceRPMPerS(m1, dist) ELSE m1
    IN  Sys([w EXCEPT !.lastDisturbanceRPMPerS = dist, !.t = RAdd(w.t, dt)], m2)

\* Lines 56-72; the type assertion succeeds when the inner system is a
\* DisturbanceReceiver.
DisturbedSystem_Step(w, m, dt) ==
    LET dist == computeDisturbance(RAdd(w.t, dt), w.cfg)
        m1   == IF w.receiver THEN DCMotor_SetDisturbanceRPMPerS(m, dist) ELSE m
        m2   == DCMotor_Step(m1, dt)
    IN  Sys([w EXCEPT !.lastDisturbanceRPMPerS = dist, !.t = RAdd(w.t, dt)], m2)

DisturbedSystem_Signals(w) ==
    {<<"disturbance_rpm_per_s", w.lastDisturbanceRPMPerS>>}

\* A ResetTime that zeroes the time and keeps the last-reported disturbance.
DisturbedSystem_ResetTimeOnly(w) ==
    [w EXCEPT !.t = Zero]

DisturbedSystem_ResetTime(w) ==
    [w EXCEPT !.t = Zero, !.lastDisturbanceRPMPerS = Zero]

\* system.System as RunStep sees it: dispatch on the dynamic type of sys.
System_Observe(w, m) ==
    IF w.present THEN DisturbedSystem_Observe(w, m) ELSE DCMotor_Observe(m)

System_Actuate(w, m, u) ==
    IF w.present THEN DisturbedSystem_Actuate(w, m, u) ELSE Sys(w, DCMotor_Actuate(m, u))

System_Step(w, m, dt) ==
    IF w.present THEN DisturbedSystem_Step(w, m, dt) ELSE Sys(w, DCMotor_Step(m, dt))

\* sys.(system.SignalReporter)
System_IsSignalReporter(w) == w.reporter

\* The pairs of the map a call of Signals() returns; the map is a new one at
\* every call.
System_Signals(w) ==
    IF w.present THEN DisturbedSystem_Signals(w) ELSE {}

-----------------------------------------------------------------------------
(* experiment.RunStep                                                      *)

StepConfig(target, dt, duration, modifier) ==
    [ TargetRPM |-> target, DT |-> dt, Duration |-> duration, Modifier |-> modifier ]

\* The frame of a RunStep call that has not started yet.  start is the reading
\* of time.Now() on entry, wall the time.Duration returned.
RunStepFrame ==
    [ pc |-> "call", start |-> 0, wall |-> 0,
      steps |-> 0, signalReporter |-> FALSE,
      i |-> 0, t |-> Zero, actual |-> Zero, tr |-> ZeroTrace, u |-> Zero,
      sigs |-> NilMap, out |-> <<>>,
      maps |-> <<>>, returned |-> {} ]

\* An entry that validates the step size only.
RunStep_CallCheckingDTOnly(b, c, now) ==
    IF RLe(c.DT, Zero)
    THEN [b EXCEPT !.rs.start = now, !.rs.out = <<>>, !.rs.pc = "return"]
    ELSE LET steps == TruncToInt(RDiv(c.Duration, c.DT))
         IN  IF steps < 0
             THEN [b EXCEPT !.rs.start = now, !.rs.steps = steps, !.rs.pc = "panic"]
             ELSE [b EXCEPT !.rs.start = now, !.rs.steps = steps, !.rs.out = <<>>,
                            !.rs.signalReporter = System_IsSignalReporter(b.wrap),
                            !.rs.i = 0,
                            !.rs.pc = IF 0 < steps THEN "observe" ELSE "return"]

\* An entry that also starts the controller afresh.
RunStep_CallResettingController(b, c, now) ==
    LET b0 == [b EXCEPT !.ctrl.integral = Zero, !.ctrl.prevError = Zero,
                        !.ctrl.hasPrev = FALSE]
    IN  IF RLe(c.DT, Zero) \/ RLe(c.Duration, Zero)
        THEN [b0 EXCEPT !.rs.start = now, !.rs.out = <<>>, !.rs.pc = "return"]
        ELSE LET steps == TruncToInt(RDiv(c.Duration, c.DT))
             IN  IF steps < 0
                 THEN [b0 EXCEPT !.rs.start = now, !.rs.steps = steps, !.rs.pc = "panic"]
                 ELSE [b0 EXCEPT !.rs.start = now, !.rs.steps = steps, !.rs.out = <<>>,
                                 !.rs.signalReporter = System_IsSignalReporter(b.wrap),
                                 !.rs.i = 0,
                                 !.rs.pc = IF 0 < steps THEN "observe" ELSE "return"]

\* Lines 50-63: start := time.Now(); validation; steps; out := make(...);
\* the SignalReporter type assertion; then the loop test for i = 0.  make
\* panics on a negative capacity.
RunStep_Call(b, c, now) ==
    IF RLe(c.DT, Zero) \/ RLe(c.Duration, Zero)
    THEN [b EXCEPT !.rs.start = now, !.rs.out = <<>>, !.rs.pc = "return"]
    ELSE LET steps == TruncToInt(RDiv(c.Duration, c.DT))
         IN  IF steps < 0
             THEN [b EXCEPT !.rs.start = now, !.rs.steps = steps, !.rs.pc = "panic"]
             ELSE [b EXCEPT !.rs.start = now, !.rs.steps = steps, !.rs.out = <<>>,
                            !.rs.signalReporter = System_IsSignalReporter(b.wrap),
                            !.rs.i = 0,
                            !.rs.pc = IF 0 < steps THEN "observe" ELSE "return"]

\* A timestamp taken at the end of the step interval.
RunStep_ObserveEndOfInterval(b, c, now) ==
    [b EXCEPT !.rs.t = RMul(R(b.rs.i + 1), c.DT),
              !.rs.actual = System_Observe(b.wrap, b.motor),
              !.rs.pc = "control"]

\* A timestamp read from the wall clock.
RunStep_ObserveWallClock(b, c, now) ==
    [b EXCEPT !.rs.t = R(now - b.rs.start),
              !.rs.actual = System_Observe(b.wrap, b.motor),
              !.rs.pc = "control"]

\* Lines 66-68: t := float64(i) * cfg.DT; actual := sys.Observe()
RunStep_Observe(b, c, now) ==
    [b EXCEPT !.rs.t = RMul(R(b.rs.i), c.DT),
              !.rs.actual = System_Observe(b.wrap, b.motor),
              !.rs.pc = "control"]

\* Lines 69-70: var tr pid.Trace; u := ctrl.Step(cfg.TargetRPM, actual, cfg.DT, &tr)
RunStep_Control(b, c, now) ==
    LET res == Controller_Step(b.ctrl, c.TargetRPM, b.rs.actual, c.DT)
    IN  [b EXCEPT !.ctrl = res.c, !.rs.tr = res.tr, !.rs.u = res.ret,
                  !.rs.pc = "modify"]

\* Lines 72-74: if cfg.Modifier != nil { u = cfg.Modifier.Modify(u) }
RunStep_Modify(b, c, now) ==
    [b EXCEPT !.rs.u = IF c.Modifier.kind # "nil" THEN Modify(c.Modifier, @) ELSE @,
              !.rs.pc = "actuate"]

\* Line 76: sys.Actuate(u)
RunStep_Actuate(b, c, now) ==
    LET sys == System_Actuate(b.wrap, b.motor, b.rs.u)
    IN  [b EXCEPT !.wrap = sys.wrap, !.motor = sys.motor, !.rs.pc = "step"]

\* Line 77: sys.Step(cfg.DT)
RunStep_SysStep(b, c, now) ==
    LET sys == System_Step(b.wrap, b.motor, c.DT)
    IN  [b EXCEPT !.wrap = sys.wrap, !.motor = sys.motor, !.rs.pc = "signals"]

\* A snapshot that stores the map Signals() returned instead of a copy.
RunStep_SignalsAliased(b, c, now) ==
    IF ~b.rs.signalReporter
    THEN [b EXCEPT !.rs.sigs = NilMap, !.rs.pc = "append"]
    ELSE LET raw == Len(b.rs.maps) + 1
             m1  == Append(b.rs.maps, System_Signals(b.wrap))
         IN  [b EXCEPT !.rs.maps = m1,
                       !.rs.returned = @ \cup {raw},
                       !.rs.sigs = IF Cardinality(m1[raw]) > 0 THEN raw ELSE NilMap,
                       !.rs.pc = "append"]

\* Lines 80-90: sigs stays nil unless there is a reporter and the map raw it
\* returns is not empty; then sigs is a new map that raw is copied into key
\* by key.
RunStep_Signals(b, c, now) ==
    IF ~b.rs.signalReporter
    THEN [b EXCEPT !.rs.sigs = NilMap, !.rs.pc = "append"]
    ELSE LET raw == Len(b.rs.maps) + 1
             m1  == Append(b.rs.maps, System_Signals(b.wrap))
         IN  IF Cardinality(m1[raw]) > 0
             THEN [b EXCEPT !.rs.maps = Append(m1, {kv : kv \in m1[raw]}),
                            !.rs.returned = @ \cup {raw},
                            !.rs.sigs = raw + 1,
                            !.rs.pc = "append"]
             ELSE [b EXCEPT !.rs.maps = m1,
                            !.rs.returned = @ \cup {raw},
                            !.rs.sigs = NilMap,
                            !.rs.pc = "append"]

Sample(t, dt, tr, u, sigs) ==
    [ T |-> t, DT |-> dt,
      Target |-> tr.Target, Actual |-> tr.Actual, Error |-> tr.Error,
      U |-> u,
      P |-> tr.P, I |-> tr.I, D |-> tr.D,
      OutRaw |-> tr.OutRaw, Saturated |-> tr.Saturated, Integrated |-> tr.Integrated,
      Signals |-> sigs ]

\* A sample that records the controller's output instead of the command.
RunStep_AppendControllerOutput(b, c, now) ==
    [b EXCEPT !.rs.out = Append(@, Sample(b.rs.t, c.DT, b.rs.tr, b.rs.tr.Out, b.rs.sigs)),
              !.rs.i = @ + 1,
              !.rs.t = Zero, !.rs.actual = Zero, !.rs.tr = ZeroTrace,
              !.rs.u = Zero, !.rs.sigs = NilMap,
              !.rs.pc = IF b.rs.i + 1 < b.rs.steps THEN "observe" ELSE "return"]

\* Lines 92-107: out = append(out, Sample{...}); i++; the loop test.  The
\* locals of the iteration go out of scope.
RunStep_Append(b, c, now) ==
    [b EXCEPT !.rs.out = Append(@, Sample(b.rs.t, c.DT, b.rs.tr, b.rs.u, b.rs.sigs)),
              !.rs.i = @ + 1,
              !.rs.t = Zero, !.rs.actual = Zero, !.rs.tr = ZeroTrace,
              !.rs.u = Zero, !.rs.sigs = NilMap,
              !.rs.pc = IF b.rs.i + 1 < b.rs.steps THEN "observe" ELSE "return"]

\* Lines 53 and 109: return out, time.Since(start)
RunStep_Return(b, c, now) ==
    [b EXCEPT !.rs.wall = now - b.rs.start, !.rs.pc = "done"]

\* The next step of a RunStep call, by its position.
RunStep_Advance(b, c, now) ==
    CASE b.rs.pc = "call"    -> RunStep_Call(b, c, now)
      [] b.rs.pc = "observe" -> RunStep_Observe(b, c, now)
      [] b.rs.pc = "control" -> RunStep_Control(b, c, now)
      [] b.rs.pc = "modify"  -> RunStep_Modify(b, c, now)
      [] b.rs.pc = "actuate" -> RunStep_Actuate(b, c, now)
      [] b.rs.pc = "step"    -> RunStep_SysStep(b, c, now)
      [] b.rs.pc = "signals" -> RunStep_Signals(b, c, now)
      [] b.rs.pc = "append"  -> RunStep_Append(b, c, now)
      [] b.rs.pc = "return"  -> RunStep_Return(b, c, now)

-----------------------------------------------------------------------------
(* analysis.Compute                                                        *)

\* math.NaN(): no rational, and never an operand in Compute.
NaN == <<0, 0>>

RECURSIVE Compute_maxA(_, _, _)
RECURSIVE Compute_minA(_, _, _)
RECURSIVE Compute_iae(_, _)
RECURSIVE Compute_sat(_, _)
RECURSIVE Compute_settle(_, _, _)
RECURSIVE Compute_settleFirstInBand(_, _, _)

\* if s.Actual > maxA { maxA = s.Actual }, from sample i on.
Compute_maxA(samples, i, maxA) ==
    IF i > Len(samples) THEN maxA
    ELSE Compute_maxA(samples, i + 1,
                      IF RGt(samples[i].Actual, maxA) THEN samples[i].Actual ELSE maxA)

\* if s.Actual < minA { minA = s.Actual }, from sample i on.
Compute_minA(samples, i, minA) ==
    IF i > Len(samples) THEN minA
    ELSE Compute_minA(samples, i + 1,
                      IF RLt(samples[i].Actual, minA) THEN samples[i].Actual ELSE minA)

\* iae += math.Abs(s.Error) * s.DT, over the first n samples.
Compute_iae(samples, n) ==
    IF n = 0 THEN Zero
    ELSE RAdd(Compute_iae(samples, n - 1), RMul(RAbs(samples[n].Error), samples[n].DT))

\* if s.Saturated { sat++ }, over the first n samples.
Compute_sat(samples, n) ==
    IF n = 0 THEN 0
    ELSE Compute_sat(samples, n - 1) + (IF samples[n].Saturated THEN 1 ELSE 0)

\* An overshoot that keeps its sign when the maximum stays below the target.
Compute_overshootSigned(target, maxA) ==
    IF target # Zero
    THEN RMul(RDiv(RSub(maxA, target), RAbs(target)), R(100))
    ELSE Zero

Compute_overshoot(target, maxA) ==
    IF target # Zero
    THEN LET o == RMul(RDiv(RSub(maxA, target), RAbs(target)), R(100))
         IN  IF RGt(o, Zero) THEN o ELSE Zero
    ELSE Zero

Compute_band(target, settleBandFrac) ==
    LET band == RMul(RAbs(target), settleBandFrac)
    IN  IF band = Zero THEN Q(1, 1000000000) ELSE band

\* A settling time that is the first sample within the band, whatever follows.
Compute_settleFirstInBand(samples, band, i) ==
    IF i > Len(samples) THEN NaN
    ELSE IF RGt(RAbs(samples[i].Error), band)
         THEN Compute_settleFirstInBand(samples, band, i + 1)
         ELSE samples[i].T

\* for i := range samples { ... }, from sample i on.
Compute_settle(samples, band, i) ==
    IF i > Len(samples) THEN NaN
    ELSE IF RGt(RAbs(samples[i].Error), band) THEN Compute_settle(samples, band, i + 1)
    ELSE IF \A j \in i..Len(samples) : ~RGt(RAbs(samples[j].Error), band)
         THEN samples[i].T
         ELSE Compute_settle(samples, band, i + 1)

Compute(samples, settleBandFrac) ==
    IF Len(samples) = 0
    THEN [ Target |-> Zero, MaxActual |-> Zero, MinActual |-> Zero,
           OvershootPercent |-> Zero, SteadyStateError |-> Zero, IAE |-> Zero,
           SettlingTimeSeconds |-> NaN, SaturationFraction |-> Zero ]
    ELSE LET target == samples[Len(samples)].Target
             maxA   == Compute_maxA(samples, 1, samples[1].Actual)
             minA   == Compute_minA(samples, 1, samples[1].Actual)
         IN  [ Target |-> target, MaxActual |-> maxA, MinActual |-> minA,
               OvershootPercent |-> Compute_overshoot(target, maxA),
               SteadyStateError |-> samples[Len(samples)].Error,
               IAE |-> Compute_iae(samples, Len(samples)),
               SettlingTimeSeconds |->
                   Compute_settle(samples, Compute_band(target, settleBandFrac), 1),
               SaturationFraction |-> Q(Compute_sat(samples, Len(samples)), Len(samples)) ]

-----------------------------------------------------------------------------
(* Bounds and the values the callers pass                                  *)

MaxWall == 1               \* wall-clock readings are 0..MaxWall
MaxDurationQuarters == 4   \* the longest cfg.Duration, in quarters of a second
MaxMotorCalls == 4         \* calls made on a DCMotor by its caller
MaxMotorSteps == 2         \* of which calls of Step
MaxControllerCalls == 3    \* calls of Controller.Step by its caller
SteadySteps == 10000       \* the Steps of TestDCMotor_SteadyStateWithDisturbance
MaxModifyCalls == 2        \* calls of Modifier.Modify by its caller
MaxWrapCalls == 4          \* calls on a DisturbedSystem by its caller
MaxSamples == 3            \* samples in a sequence handed to Compute

InitVelocities == {Zero, R(100)}
ActuateInputs == {R(1), R(10), R(-30)}
DisturbanceInputs == {Zero, R(50)}
MotorStepInputs == {R(-1), Zero, Q(1, 1000), Q(1, 4), R(1)}

\* (Kp, Ki, Kd) and (OutMin, OutMax) as the tests and the CLI set them, and
\* one controller whose bounds are crossed.
ControllerGains ==
    { <<R(100), Zero, Zero>>, <<Q(1, 10), Zero, R(1)>>,
      <<Q(1, 10), R(1), Zero>>, <<Q(1, 50), Q(1, 20), Q(1, 100)>> }
ControllerLimits == { <<R(-24), R(24)>>, <<R(-24), R(2)>>, <<R(1), R(-1)>> }
ControllerInputs == { <<R(100), Zero>>, <<R(100), R(50)>>, <<Zero, R(1)>> }
ControllerDTs == {Q(-1, 100), Zero, Q(1, 100), Q(1, 2)}

RunGains == { <<Q(1, 50), Q(1, 20), Zero>>, <<Q(1, 50), Zero, Zero>>,
              <<Q(1, 10), Zero, Q(1, 100)>> }
RunTargets == {R(1000), Zero}
RunDTs == {Q(-1, 1000), Zero, Q(1, 4), Q(3, 10)}
RunDurations == {R(-1), Zero, Q(1, 10), Q(MaxDurationQuarters, 4)}
RunModifiers ==
    { NilModifier, Chain(<<DeadzoneModifier(Q(1, 2))>>), DeadzoneModifier(Q(3, 2)) }
RunWrappers ==
    { NoDisturbedSystem,
      NewDisturbedSystem(StepDisturbanceConfig(TRUE, Q(1, 2), Q(1, 4), R(50))),
      NewDisturbedSystem(StepDisturbanceConfig(TRUE, Q(3, 4), Zero, R(50))) }

ZeroCalls ==
    [ observe |-> 0, ctrlStep |-> 0, modify |-> 0, actuate |-> 0, sysStep |-> 0,
      signals |-> 0, setDisturbance |-> 0, resetTime |-> 0, actuated |-> <<>>,
      stepErrors |-> <<>> ]

NoCall == [op |-> "none"]

IdleFrame == [RunStepFrame EXCEPT !.pc = "idle"]
NoConfig == StepConfig(Zero, Zero, Zero, NilModifier)

Bundle == [motor |-> motor, ctrl |-> ctrl, wrap |-> wrap, rs |-> rs]

Install(b) ==
    /\ motor' = b.motor
    /\ ctrl' = b.ctrl
    /\ wrap' = b.wrap
    /\ rs' = b.rs

\* time.Now() is monotonic: a reading is never before the one taken on entry.
WallReadings(b) == b.rs.start .. MaxWall

-----------------------------------------------------------------------------
(* Spec: one call of RunStep on a fresh controller and plant               *)

InitRun ==
    /\ motor \in {[NewDCMotor EXCEPT !.VelocityRPM = v] : v \in InitVelocities}
    /\ ctrl \in {New(g[1], g[2], g[3]) : g \in RunGains}
    /\ wrap \in RunWrappers
    /\ cfg \in {StepConfig(tg, dt, du, md) :
                   tg \in RunTargets, dt \in RunDTs, du \in RunDurations,
                   md \in RunModifiers}
    /\ rs = RunStepFrame
    /\ last = NoCall
    /\ calls = ZeroCalls
    /\ enclosure = NoEnclosure

Init == InitRun /\ shadow = NoShadow

\* The configuration the second run is called with: cfg, unless it was given
\* one of its own.
ShadowConfig == IF "cfg" \in DOMAIN shadow THEN shadow.cfg ELSE cfg

\* The second run, when there is one and it has not returned, takes its next
\* step of RunStep with a wall-clock reading of its own.
ShadowFollows ==
    IF ~shadow.present \/ shadow.rs.pc = "done" THEN UNCHANGED shadow
    ELSE \E now \in WallReadings(shadow) :
            shadow' = RunStep_Advance(shadow, ShadowConfig, now)

RunStepCall ==
    /\ rs.pc = "call"
    /\ \E now \in WallReadings(Bundle) : Install(RunStep_Call(Bundle, cfg, now))
    /\ UNCHANGED <<cfg, last, calls, enclosure>>
    /\ ShadowFollows

RunStepObserve ==
    /\ rs.pc = "observe"
    /\ \E now \in WallReadings(Bundle) : Install(RunStep_Observe(Bundle, cfg, now))
    /\ calls' = [calls EXCEPT !.observe = @ + 1]
    /\ UNCHANGED <<cfg, last, enclosure>>
    /\ ShadowFollows

RunStepControl ==
    /\ rs.pc = "control"
    /\ \E now \in WallReadings(Bundle) : Install(RunStep_Control(Bundle, cfg, now))
    /\ calls' = [calls EXCEPT !.ctrlStep = @ + 1]
    /\ UNCHANGED <<cfg, last, enclosure>>
    /\ ShadowFollows

RunStepModify ==
    /\ rs.pc = "modify"
    /\ \E now \in WallReadings(Bundle) : Install(RunStep_Modify(Bundle, cfg, now))
    /\ calls' = [calls EXCEPT !.modify = IF cfg.Modifier.kind # "nil" THEN @ + 1 ELSE @]
    /\ UNCHANGED <<cfg, last, enclosure>>
    /\ ShadowFollows

RunStepActuate ==
    /\ rs.pc = "actuate"
    /\ \E now \in WallReadings(Bundle) : Install(RunStep_Actuate(Bundle, cfg, now))
    /\ calls' = [calls EXCEPT !.actuate = @ + 1, !.actuated = Append(@, rs.u)]
    /\ UNCHANGED <<cfg, last, enclosure>>
    /\ ShadowFollows

RunStepSysStep ==
    /\ rs.pc = "step"
    /\ \E now \in WallReadings(Bundle) : Install(RunStep_SysStep(Bundle, cfg, now))
    /\ calls' = [calls EXCEPT !.sysStep = @ + 1]
    /\ UNCHANGED <<cfg, last, enclosure>>
    /\ ShadowFollows

RunStepSignals ==
    /\ rs.pc = "signals"
    /\ \E now \in WallReadings(Bundle) : Install(RunStep_Signals(Bundle, cfg, now))
    /\ calls' = [calls EXCEPT !.signals = IF rs.signalReporter THEN @ + 1 ELSE @]
    /\ UNCHANGED <<cfg, last, enclosure>>
    /\ ShadowFollows

RunStepAppend ==
    /\ rs.pc = "append"
    /\ \E now \in WallReadings(Bundle) : Install(RunStep_Append(Bundle, cfg, now))
    /\ UNCHANGED <<cfg, last, calls, enclosure>>
    /\ ShadowFollows

RunStepReturn ==
    /\ rs.pc = "return"
    /\ \E now \in WallReadings(Bundle) : Install(RunStep_Return(Bundle, cfg, now))
    /\ UNCHANGED <<cfg, last, calls, enclosure>>
    /\ ShadowFollows

Next ==
    \/ RunStepCall
    \/ RunStepObserve
    \/ RunStepControl
    \/ RunStepModify
    \/ RunStepActuate
    \/ RunStepSysStep
    \/ RunStepSignals
    \/ RunStepAppend
    \/ RunStepReturn

Spec == Init /\ [][Next]_vars

-----------------------------------------------------------------------------
(* SpecTwice: a caller that calls RunStep, keeps the samples, and calls    *)
(* RunStep again with the same controller, plant and configuration, as     *)
(* TestRunStep_ModifierNilVsSet reuses its controller; shadow is one call  *)
(* from the same initial state that makes as many steps as the two         *)

MaxTwiceQuarters == 2      \* the longest cfg.Duration of a repeated run, in quarters

TwiceDTs == {dt \in RunDTs : RGt(dt, Zero)}
TwiceDurations == {Q(k, 4) : k \in 1..MaxTwiceQuarters}

\* c with the duration of twice the steps that c gives.
TwiceAsLong(c) ==
    [c EXCEPT !.Duration = RMul(R(2 * TruncToInt(RDiv(c.Duration, c.DT))), c.DT)]

InitTwice ==
    /\ motor \in {[NewDCMotor EXCEPT !.VelocityRPM = v] : v \in InitVelocities}
    /\ ctrl \in {New(g[1], g[2], g[3]) : g \in RunGains}
    /\ wrap \in RunWrappers
    /\ cfg \in {StepConfig(tg, dt, du, md) :
                   tg \in RunTargets, dt \in TwiceDTs, du \in TwiceDurations,
                   md \in RunModifiers}
    /\ rs = RunStepFrame
    /\ last = NoCall
    /\ calls = ZeroCalls
    /\ enclosure = NoEnclosure
    /\ shadow = [present |-> TRUE, motor |-> motor, ctrl |-> ctrl, wrap |-> wrap,
                 rs |-> rs, cfg |-> TwiceAsLong(cfg)]

\* samples1, _ := RunStep(sys, ctrl, cfg) has returned; the caller keeps its
\* samples and calls RunStep(sys, ctrl, cfg) once more.
RunStepCallAgain ==
    /\ rs.pc = "done"
    /\ last = NoCall
    /\ last' = [op |-> "RunStep", rs |-> rs, ctrl |-> ctrl]
    /\ rs' = RunStepFrame
    /\ UNCHANGED <<motor, ctrl, wrap, cfg, calls, enclosure>>
    /\ ShadowFollows

NextTwice ==
    \/ RunStepCall
    \/ RunStepObserve
    \/ RunStepControl
    \/ RunStepModify
    \/ RunStepActuate
    \/ RunStepSysStep
    \/ RunStepSignals
    \/ RunStepAppend
    \/ RunStepReturn
    \/ RunStepCallAgain

SpecTwice == InitTwice /\ [][NextTwice]_vars

-----------------------------------------------------------------------------
(* SpecSignals: one call of RunStep on a plant that reports no signals, an *)
(* empty map or the decorator's map, while whoever holds a map that        *)
(* Signals() returned writes to it                                         *)

SignalsWrappers ==
    { NoDisturbedSystem, SilentReporter,
      NewDisturbedSystem(StepDisturbanceConfig(TRUE, Q(1, 2), Q(1, 4), R(50))) }

\* What a holder of a returned map leaves in it.
OverwrittenSignals == {<<"disturbance_rpm_per_s", R(-1)>>}

InitSignals ==
    /\ motor = NewDCMotor
    /\ ctrl \in {New(g[1], g[2], g[3]) : g \in RunGains}
    /\ wrap \in SignalsWrappers
    /\ cfg \in {StepConfig(R(1000), Q(1, 4), du, NilModifier) : du \in RunDurations}
    /\ rs = RunStepFrame
    /\ last = NoCall
    /\ calls = ZeroCalls
    /\ enclosure = NoEnclosure
    /\ shadow = NoShadow

\* raw[k] = v by a holder of the map raw that a call of Signals() returned.
MutateReturnedSignals ==
    /\ \E raw \in rs.returned :
         /\ rs.maps[raw] # OverwrittenSignals
         /\ rs' = [rs EXCEPT !.maps[raw] = OverwrittenSignals]
    /\ UNCHANGED <<motor, ctrl, wrap, cfg, last, calls, enclosure, shadow>>

NextSignals ==
    \/ RunStepCall
    \/ RunStepObserve
    \/ RunStepControl
    \/ RunStepModify
    \/ RunStepActuate
    \/ RunStepSysStep
    \/ RunStepSignals
    \/ RunStepAppend
    \/ RunStepReturn
    \/ MutateReturnedSignals

SpecSignals == InitSignals /\ [][NextSignals]_vars

-----------------------------------------------------------------------------
(* SpecDet: two calls of RunStep from equal configurations and equal       *)
(* initial states, advancing together, each with its own wall clock        *)

InitDet ==
    /\ InitRun
    /\ shadow = [present |-> TRUE, motor |-> motor, ctrl |-> ctrl, wrap |-> wrap, rs |-> rs]

SpecDet == InitDet /\ [][Next]_vars

-----------------------------------------------------------------------------
(* SpecMotor: a caller making any calls on a DCMotor                       *)

InitMotor ==
    /\ motor \in {[NewDCMotor EXCEPT !.VelocityRPM = v] : v \in InitVelocities}
    /\ ctrl = New(Zero, Zero, Zero)
    /\ wrap = NoDisturbedSystem
    /\ cfg = NoConfig
    /\ rs = IdleFrame
    /\ last = NoCall
    /\ calls = ZeroCalls
    /\ enclosure = NoEnclosure
    /\ shadow = NoShadow

MotorCallCount == calls.actuate + calls.setDisturbance + calls.sysStep

\* The caller is in the long run of Steps that enclosure follows.
InLongRun == enclosure.n > 0

MotorCall(op, arg) == [op |-> op, arg |-> arg, pre |-> motor]

MotorActuate ==
    /\ ~InLongRun
    /\ MotorCallCount < MaxMotorCalls
    /\ \E u \in ActuateInputs :
         /\ motor' = DCMotor_Actuate(motor, u)
         /\ last' = MotorCall("Actuate", u)
    /\ calls' = [calls EXCEPT !.actuate = @ + 1]
    /\ UNCHANGED <<ctrl, wrap, cfg, rs, enclosure, shadow>>

MotorSetDisturbance ==
    /\ ~InLongRun
    /\ MotorCallCount < MaxMotorCalls
    /\ \E d \in DisturbanceInputs :
         /\ motor' = DCMotor_SetDisturbanceRPMPerS(motor, d)
         /\ last' = MotorCall("SetDisturbanceRPMPerS", d)
    /\ calls' = [calls EXCEPT !.setDisturbance = @ + 1]
    /\ UNCHANGED <<ctrl, wrap, cfg, rs, enclosure, shadow>>

MotorStep ==
    /\ ~InLongRun
    /\ MotorCallCount < MaxMotorCalls
    /\ calls.sysStep < MaxMotorSteps
    /\ \E dt \in MotorStepInputs :
         /\ motor' = DCMotor_Step(motor, dt)
         /\ last' = MotorCall("Step", dt)
    /\ calls' = [calls EXCEPT !.sysStep = @ + 1]
    /\ UNCHANGED <<ctrl, wrap, cfg, rs, enclosure, shadow>>

\* The long run of TestDCMotor_SteadyStateWithDisturbance: from rest, after
\* Actuate(10) and SetDisturbanceRPMPerS(50), SteadySteps Steps of 0.001 s.
\* motor keeps the state the run started from.
MotorStepLongRun ==
    /\ \/ InLongRun /\ enclosure.n < SteadySteps
       \/ /\ ~InLongRun
          /\ calls.sysStep = 0
          /\ motor.VelocityRPM = Zero
          /\ motor.appliedVoltage = R(10)
          /\ motor.disturbanceRPMPerS = R(50)
    /\ enclosure' = DCMotor_StepEnclosure(motor, enclosure, Q(1, 1000))
    /\ UNCHANGED <<motor, ctrl, wrap, cfg, rs, last, calls, shadow>>

NextMotor == MotorActuate \/ MotorSetDisturbance \/ MotorStep \/ MotorStepLongRun

SpecMotor == InitMotor /\ [][NextMotor]_vars

-----------------------------------------------------------------------------
(* SpecPID: a caller making any calls of Controller.Step                   *)

InitPID ==
    /\ motor = NewDCMotor
    /\ ctrl \in {[New(g[1], g[2], g[3]) EXCEPT !.OutMin = l[1], !.OutMax = l[2]] :
                    g \in ControllerGains, l \in ControllerLimits}
    /\ wrap = NoDisturbedSystem
    /\ cfg = NoConfig
    /\ rs = IdleFrame
    /\ last = NoCall
    /\ calls = ZeroCalls
    /\ enclosure = NoEnclosure
    /\ shadow = NoShadow

ControllerStep ==
    /\ calls.ctrlStep < MaxControllerCalls
    /\ \E in \in ControllerInputs, dt \in ControllerDTs :
         LET res == Controller_Step(ctrl, in[1], in[2], dt)
         IN  /\ ctrl' = res.c
             /\ last' = [ op |-> "Step", target |-> in[1], actual |-> in[2], dt |-> dt,
                          pre |-> ctrl, tr |-> res.tr, ret |-> res.ret ]
    /\ calls' = [calls EXCEPT !.ctrlStep = @ + 1,
                             !.stepErrors = IF RGt(last'.dt, Zero)
                                            THEN Append(@, RSub(last'.target, last'.actual))
                                            ELSE @]
    /\ UNCHANGED <<motor, wrap, cfg, rs, enclosure, shadow>>

NextPID == ControllerStep

SpecPID == InitPID /\ [][NextPID]_vars

-----------------------------------------------------------------------------
(* SpecModifier: a caller making any calls of Modify on one modifier       *)

\* Thresholds a DeadzoneModifier is built with; the field is exported, so a
\* caller can also set a negative one.
DeadzoneThresholds == {Zero, Q(1, 2), R(1), Q(5, 2), R(-1)}

\* Modifiers built from DeadzoneModifier and Chain, as modifier_test.go and
\* runSimStep build them.
ModifiersUnderTest ==
    {DeadzoneModifier(th) : th \in DeadzoneThresholds}
    \cup {Chain(<<DeadzoneModifier(a), DeadzoneModifier(b)>>) :
              a, b \in {th \in DeadzoneThresholds : RGe(th, Zero)}}
    \cup { Chain(<<>>),
           Chain(<<DeadzoneModifier(R(1))>>),
           Chain(<<DeadzoneModifier(R(1)), DeadzoneModifier(Q(1, 2))>>),
           Chain(<<DeadzoneModifier(R(1)), DeadzoneModifier(R(-1))>>),
           Chain(<<DeadzoneModifier(R(-1)), DeadzoneModifier(R(1))>>),
           Chain(<<DeadzoneModifier(Q(1, 2)), DeadzoneModifier(R(-1)), DeadzoneModifier(R(1))>>),
           Chain(<<Chain(<<DeadzoneModifier(R(1))>>), Chain(<<>>), DeadzoneModifier(R(-1))>>) }

ModifyInputs ==
    {R(-5), R(-3), Q(-13, 5), R(-1), Q(-1, 2), Zero, Q(1, 2), R(1), Q(13, 5), R(3), R(5)}

InitModifier ==
    /\ motor = NewDCMotor
    /\ ctrl = New(Zero, Zero, Zero)
    /\ wrap = NoDisturbedSystem
    /\ cfg \in {StepConfig(Zero, Zero, Zero, m) : m \in ModifiersUnderTest}
    /\ rs = IdleFrame
    /\ last = NoCall
    /\ calls = ZeroCalls
    /\ enclosure = NoEnclosure
    /\ shadow = NoShadow

ModifierModify ==
    /\ calls.modify < MaxModifyCalls
    /\ \E u \in ModifyInputs :
         last' = [op |-> "Modify", arg |-> u, ret |-> Modify(cfg.Modifier, u)]
    /\ calls' = [calls EXCEPT !.modify = @ + 1]
    /\ UNCHANGED <<motor, ctrl, wrap, cfg, rs, enclosure, shadow>>

NextModifier == ModifierModify

SpecModifier == InitModifier /\ [][NextModifier]_vars

-----------------------------------------------------------------------------
(* SpecWrap: a caller making any calls on a DisturbedSystem around a       *)
(* DCMotor; from a ResetTime on, shadow is a freshly constructed wrapper   *)
(* with the same config that is given the same calls.                      *)

WrapConfigs ==
    { StepDisturbanceConfig(TRUE, Q(1, 2), Q(1, 4), R(50)),
      StepDisturbanceConfig(TRUE, Q(1, 4), Zero, R(50)),
      StepDisturbanceConfig(TRUE, Q(1, 4), R(-1), R(50)),
      StepDisturbanceConfig(FALSE, Zero, Zero, R(50)),
      StepDisturbanceConfig(TRUE, Zero, Zero, Zero),
      StepDisturbanceConfig(TRUE, Zero, Q(1, 2), R(-20)) }

WrapStepInputs == {Q(-1, 4), Zero, Q(1, 4), Q(1, 2)}

WrapActuateInputs == {R(10)}

InitWrap ==
    /\ motor = NewDCMotor
    /\ ctrl = New(Zero, Zero, Zero)
    /\ wrap \in {NewDisturbedSystem(c) : c \in WrapConfigs}
                \cup {NewDisturbedSystemAroundPlainSystem(c) : c \in WrapConfigs}
    /\ cfg = NoConfig
    /\ rs = IdleFrame
    /\ last = NoCall
    /\ calls = ZeroCalls
    /\ enclosure = NoEnclosure
    /\ shadow = NoShadow

WrapCallCount ==
    calls.observe + calls.actuate + calls.sysStep + calls.signals + calls.resetTime

WrapCall(op, arg, ret) ==
    [op |-> op, arg |-> arg, pre |-> Sys(wrap, motor), ret |-> ret]

\* The second system is given the call too.
ShadowSys(s) ==
    IF shadow.present
    THEN [present |-> TRUE, wrap |-> s.wrap, motor |-> s.motor, steps |-> shadow.steps]
    ELSE shadow

WrapObserve ==
    /\ WrapCallCount < MaxWrapCalls
    /\ last' = WrapCall("WrapObserve", Zero, DisturbedSystem_Observe(wrap, motor))
    /\ calls' = [calls EXCEPT !.observe = @ + 1]
    /\ UNCHANGED <<motor, ctrl, wrap, cfg, rs, enclosure, shadow>>

WrapActuate ==
    /\ WrapCallCount < MaxWrapCalls
    /\ \E u \in WrapActuateInputs :
         LET s == DisturbedSystem_Actuate(wrap, motor, u)
         IN  /\ wrap' = s.wrap
             /\ motor' = s.motor
             /\ last' = WrapCall("WrapActuate", u, Zero)
             /\ shadow' = IF shadow.present
                          THEN ShadowSys(System_Actuate(shadow.wrap, shadow.motor, u))
                          ELSE shadow
    /\ calls' = [calls EXCEPT !.actuate = @ + 1]
    /\ UNCHANGED <<ctrl, cfg, rs, enclosure>>

WrapSignals ==
    /\ WrapCallCount < MaxWrapCalls
    /\ last' = WrapCall("WrapSignals", Zero, DisturbedSystem_Signals(wrap))
    /\ calls' = [calls EXCEPT !.signals = @ + 1]
    /\ UNCHANGED <<motor, ctrl, wrap, cfg, rs, enclosure, shadow>>

WrapStep ==
    /\ WrapCallCount < MaxWrapCalls
    /\ \E dt \in WrapStepInputs :
         LET s == DisturbedSystem_Step(wrap, motor, dt)
         IN  /\ wrap' = s.wrap
             /\ motor' = s.motor
             /\ last' = WrapCall("WrapStep", dt, Zero)
             /\ shadow' = IF shadow.present
                          THEN [ShadowSys(System_Step(shadow.wrap, shadow.motor, dt))
                                   EXCEPT !.steps = @ + 1]
                          ELSE shadow
    /\ calls' = [calls EXCEPT !.sysStep = @ + 1]
    /\ UNCHANGED <<ctrl, cfg, rs, enclosure>>

WrapResetTime ==
    /\ WrapCallCount < MaxWrapCalls
    /\ wrap' = DisturbedSystem_ResetTime(wrap)
    /\ last' = WrapCall("WrapResetTime", Zero, Zero)
    /\ shadow' = [ present |-> TRUE,
                   wrap |-> [NewDisturbedSystem(wrap.cfg) EXCEPT !.receiver = wrap.receiver],
                   motor |-> NewDCMotor, steps |-> 0 ]
    /\ calls' = [calls EXCEPT !.resetTime = @ + 1]
    /\ UNCHANGED <<motor, ctrl, cfg, rs, enclosure>>

NextWrap == WrapObserve \/ WrapActuate \/ WrapSignals \/ WrapStep \/ WrapResetTime

SpecWrap == InitWrap /\ [][NextWrap]_vars

-----------------------------------------------------------------------------
(* SpecMetrics: a caller building a sample sequence as makeSamples does    *)
(* and handing it to Compute                                               *)

MetricsTargets == {R(-1), Zero, R(1)}

\* The measurement of a sample and whether the controller was saturated.
MetricsSampleInputs ==
    { <<R(-1), TRUE>>, <<Zero, FALSE>>, <<Q(49, 50), FALSE>>, <<Q(11, 10), FALSE>> }

MetricsBandFracs == {Q(1, 50), Zero, Q(-1, 50)}

MetricsDT == Q(1, 10)

InitMetrics ==
    /\ motor = NewDCMotor
    /\ ctrl = New(Zero, Zero, Zero)
    /\ wrap = NoDisturbedSystem
    /\ cfg = StepConfig(Zero, MetricsDT, Zero, NilModifier)
    /\ rs = IdleFrame
    /\ last = NoCall
    /\ calls = ZeroCalls
    /\ enclosure = NoEnclosure
    /\ shadow = NoShadow

\* samples = append(samples, experiment.Sample{T: float64(i) * dt, DT: dt,
\* Target: target, Actual: actual, Error: target - actual}), and Saturated;
\* Compute is handed any slice, so the target may differ between samples.
MetricsAppendSample ==
    /\ Len(rs.out) < MaxSamples
    /\ \E in \in MetricsSampleInputs, tg \in MetricsTargets :
         LET tr == [ZeroTrace EXCEPT !.Target = tg, !.Actual = in[1],
                                     !.Error = RSub(tg, in[1]),
                                     !.Saturated = in[2]]
         IN  rs' = [rs EXCEPT !.out =
                      Append(@, Sample(RMul(R(Len(rs.out)), cfg.DT), cfg.DT, tr, Zero, NilMap))]
    /\ last' = NoCall
    /\ UNCHANGED <<motor, ctrl, wrap, cfg, calls, enclosure, shadow>>

MetricsCompute ==
    /\ \E frac \in MetricsBandFracs :
         last' = [op |-> "Compute", arg |-> frac, ret |-> Compute(rs.out, frac)]
    /\ UNCHANGED <<motor, ctrl, wrap, cfg, rs, calls, enclosure, shadow>>

NextMetrics == MetricsAppendSample \/ MetricsCompute

SpecMetrics == InitMetrics /\ [][NextMetrics]_vars

-----------------------------------------------------------------------------
(* SpecTransparent: a caller making the same Observe, Actuate and Step     *)
(* calls on a DisturbedSystem around a DCMotor and, as shadow, on a bare   *)
(* DCMotor that starts in the same state                                   *)

InitTransparent ==
    /\ motor \in {[NewDCMotor EXCEPT !.VelocityRPM = v] : v \in InitVelocities}
    /\ ctrl = New(Zero, Zero, Zero)
    /\ wrap \in {NewDisturbedSystem(c) : c \in WrapConfigs}
    /\ cfg = NoConfig
    /\ rs = IdleFrame
    /\ last = NoCall
    /\ calls = ZeroCalls
    /\ enclosure = NoEnclosure
    /\ shadow = [present |-> TRUE, wrap |-> NoDisturbedSystem, motor |-> motor, steps |-> 0]

NextTransparent == WrapObserve \/ WrapActuate \/ WrapStep

SpecTransparent == InitTransparent /\ [][NextTransparent]_vars

-----------------------------------------------------------------------------
(* SpecWindup: the loop of TestAntiWindupFreezesIntegralWhenSaturatedSame- *)
(* Direction, a new controller stepped again and again with one target and *)
(* one measurement, the target above the measurement, and dt > 0           *)

MaxWindupCalls == 5

\* Kp >= 0 and Ki > 0, with and without a derivative gain.
WindupGains ==
    { <<Q(1, 10), R(10), Zero>>, <<Zero, R(10), Zero>>, <<Q(1, 10), R(10), Q(1, 10)>> }
WindupTargets == {R(100), R(10)}
WindupDTs == {Q(1, 10), Q(1, 2)}

InitWindup ==
    /\ motor = NewDCMotor
    /\ ctrl \in {[New(g[1], g[2], g[3]) EXCEPT !.OutMin = l[1], !.OutMax = l[2]] :
                    g \in WindupGains, l \in ControllerLimits}
    /\ wrap = NoDisturbedSystem
    /\ cfg \in {StepConfig(target, Zero, Zero, NilModifier) : target \in WindupTargets}
    /\ rs = IdleFrame
    /\ last = NoCall
    /\ calls = ZeroCalls
    /\ enclosure = NoEnclosure
    /\ shadow = NoShadow

\* for i := 0; i < 100; i++ : the loop counts one more call, with the error
\* target - actual it made the call with.
LoopCounts ==
    /\ calls.ctrlStep < MaxWindupCalls
    /\ calls' = [calls EXCEPT !.ctrlStep = @ + 1,
                             !.stepErrors = Append(@, RSub(cfg.TargetRPM, Zero))]

\* out := ctrl.Step(target, actual, dt, &tr) with actual := 0.0
ControllerStepConstantError ==
    /\ LoopCounts
    /\ \E dt \in WindupDTs :
         LET res == Controller_Step(ctrl, cfg.TargetRPM, Zero, dt)
         IN  /\ ctrl' = res.c
             /\ last' = [ op |-> "Step", target |-> cfg.TargetRPM, actual |-> Zero,
                          dt |-> dt, pre |-> ctrl, tr |-> res.tr, ret |-> res.ret ]
    /\ UNCHANGED <<motor, wrap, cfg, rs, enclosure, shadow>>

NextWindup == ControllerStepConstantError

\* The loop goes on until it has made its calls: whenever its counter can
\* advance, a Step is made.
SpecWindup == InitWindup /\ [][NextWindup]_vars /\ WF_calls(LoopCounts)

-----------------------------------------------------------------------------
(* Properties of RunStep                                                   *)

InvalidConfig == RLe(cfg.DT, Zero) \/ RLe(cfg.Duration, Zero)

Started == rs.pc # "call"

\* x clamped into [lo, hi], for lo <= hi.
Clamped(x, lo, hi) == IF RLt(x, lo) THEN lo ELSE IF RGt(x, hi) THEN hi ELSE x

\* n = floor(x)
IsFloorOf(n, x) == RLe(R(n), x) /\ RLt(x, R(n + 1))

\* C1: RunStep with DT <= 0 or Duration <= 0 returns normally with an empty
\* sample sequence and makes no Observe, Actuate or Step call on the system
\* and no Step call on the controller, whatever the gains and the target.
C1_InvalidConfigIsNoOp ==
    (InvalidConfig /\ Started) =>
        /\ rs.pc \in {"return", "done"}
        /\ rs.out = <<>>
        /\ calls.observe = 0
        /\ calls.actuate = 0
        /\ calls.sysStep = 0
        /\ calls.ctrlStep = 0

C1_Witness ==
    /\ InvalidConfig
    /\ rs.pc = "done"
    /\ RGt(cfg.DT, Zero)
    /\ cfg.TargetRPM = R(1000)

\* C2: for DT > 0 and Duration > 0 RunStep returns exactly floor(Duration/DT)
\* samples; sample i (from 0) has T = i * DT and DT = cfg.DT, so timestamps
\* start at 0 and increase strictly.
C2_SampleCountAndTimestamps ==
    ~InvalidConfig =>
        /\ rs.pc = "done" => IsFloorOf(Len(rs.out), RDiv(cfg.Duration, cfg.DT))
        /\ \A k \in 1..Len(rs.out) :
             /\ rs.out[k].T = RMul(R(k - 1), cfg.DT)
             /\ rs.out[k].DT = cfg.DT
             /\ k = 1 => rs.out[k].T = Zero
             /\ k > 1 => RLt(rs.out[k - 1].T, rs.out[k].T)

C2_Witness ==
    /\ rs.pc = "done"
    /\ cfg.DT = Q(3, 10)
    /\ cfg.Duration = Q(MaxDurationQuarters, 4)
    /\ Len(rs.out) >= 3

\* The threshold of the deadzone the configuration's modifier is, if it is one.
HasDeadzone ==
    \/ cfg.Modifier.kind = "deadzone"
    \/ cfg.Modifier.kind = "chain" /\ Len(cfg.Modifier.modifiers) = 1
                                   /\ cfg.Modifier.modifiers[1].kind = "deadzone"

DeadzoneThreshold ==
    IF cfg.Modifier.kind = "deadzone" THEN cfg.Modifier.Threshold
    ELSE cfg.Modifier.modifiers[1].Threshold

\* The controller's clamped output behind sample k.
SampleOut(k) == Clamped(rs.out[k].OutRaw, ctrl.OutMin, ctrl.OutMax)

\* The command the runner owes sample k: the modifier chain applied to the
\* controller's clamped output, or that output when no modifier is set.
SampleCommand(k) ==
    IF cfg.Modifier.kind = "nil" THEN SampleOut(k)
    ELSE Modify(cfg.Modifier, SampleOut(k))

RecordsActuatedCommand ==
    \A k \in 1..Len(rs.out) :
        /\ rs.out[k].U = calls.actuated[k]
        /\ rs.out[k].U = SampleCommand(k)

C4_Deterministic ==
    shadow.present =>
        /\ shadow.rs.out = rs.out
        /\ shadow.motor = motor
        /\ shadow.ctrl = ctrl
        /\ shadow.wrap = wrap
        /\ shadow.rs.pc = rs.pc

C4_Witness ==
    /\ shadow.present
    /\ rs.pc = "done"
    /\ Len(rs.out) >= 3
    /\ shadow.rs.start # rs.start
    /\ shadow.rs.wall # rs.wall

\* What sample k of the frame r holds as its Signals: nil, or the pairs of
\* the map it refers to.
SampleSignals(r, k) ==
    IF r.out[k].Signals = NilMap
    THEN [nil |-> TRUE, pairs |-> {}]
    ELSE [nil |-> FALSE, pairs |-> r.maps[r.out[k].Signals]]

\* Every sample appended so far is still there and holds the Signals it held.
AppendedSignalsKept ==
    \A k \in 1..Len(rs.out) :
        /\ k <= Len(rs'.out)
        /\ SampleSignals(rs', k) = SampleSignals(rs, k)

\* C18: a sample's Signals is a map of its own, no map that Signals()
\* returned, so neither later steps nor writes to a returned map change a
\* sample already appended; it is nil when the system is no SignalReporter
\* or returns an empty map, and otherwise holds what the system reported at
\* that step.
C18_SampleSignalsAreSnapshots ==
    /\ [](\A k \in 1..Len(rs.out) :
            /\ rs.out[k].Signals \notin rs.returned
            /\ (~System_IsSignalReporter(wrap) \/ System_Signals(wrap) = {})
                  => rs.out[k].Signals = NilMap
            /\ (System_IsSignalReporter(wrap) /\ System_Signals(wrap) # {})
                  => SampleSignals(rs, k) =
                       [ nil |-> FALSE,
                         pairs |-> {<<"disturbance_rpm_per_s",
                                      computeDisturbance(RMul(R(k), cfg.DT), wrap.cfg)>>} ])
    /\ [][AppendedSignalsKept]_vars

\* Two samples with different signals, appended by a run whose returned maps
\* have all been written to since.
C18_Witness ==
    /\ rs.pc = "done"
    /\ Len(rs.out) >= 3
    /\ rs.out[1].Signals # NilMap
    /\ SampleSignals(rs, 1) # SampleSignals(rs, 2)
    /\ rs.returned # {}
    /\ \A raw \in rs.returned : rs.maps[raw] = OverwrittenSignals

\* The place of a phase in an iteration of the loop.
PhaseRank(pc) ==
    CASE pc = "observe" -> 0
      [] pc = "control" -> 1
      [] pc = "modify"  -> 2
      [] pc = "actuate" -> 3
      [] pc = "step"    -> 4
      [] pc = "signals" -> 5
      [] pc = "append"  -> 6
      [] OTHER          -> 0

InLoop == rs.pc \in {"observe", "control", "modify", "actuate", "step", "signals", "append"}

\* How often a phase has run when rs.i iterations are complete and the
\* current one has reached rs.pc.
RunsOf(phase) == rs.i + (IF InLoop /\ PhaseRank(rs.pc) > PhaseRank(phase) THEN 1 ELSE 0)

\* The disturbance acting on the plant during the k-th Step of the run.
DisturbanceOfStep(k) ==
    IF wrap.present THEN computeDisturbance(RMul(R(k), cfg.DT), wrap.cfg)
    ELSE motor.disturbanceRPMPerS

\* The velocity after a Step of cfg.DT from velocity v under command u and
\* disturbance d.
VelocityAfter(v, u, d) ==
    LET volts == RMin(RMax(u, RNeg(motor.MaxVoltage)), motor.MaxVoltage)
    IN  RSub(RAdd(v, RMul(RDiv(cfg.DT, motor.TauSeconds),
                          RSub(RMul(motor.GainRPMPerVolt, volts), v))),
             RMul(d, cfg.DT))

\* C19: every iteration runs Observe, the controller's Step, the modifier
\* (when there is one), Actuate, the system's Step(DT), the signals snapshot
\* (when the system reports signals) and the append once each and in this
\* order; so a sample's measurement is the velocity before its step is
\* integrated, its command is the one that step is integrated under, and its
\* disturbance signal is the schedule at (i + 1) * DT, the one that step is
\* integrated under.
C19_IterationOrder ==
    (rs.pc \notin {"call", "panic", "idle"}) =>
        /\ rs.i <= rs.steps
        /\ Len(rs.out) = rs.i
        /\ calls.observe = RunsOf("observe")
        /\ calls.ctrlStep = RunsOf("control")
        /\ calls.modify = IF cfg.Modifier.kind # "nil" THEN RunsOf("modify") ELSE 0
        /\ calls.actuate = RunsOf("actuate")
        /\ calls.sysStep = RunsOf("step")
        /\ calls.signals = IF System_IsSignalReporter(wrap) THEN RunsOf("signals") ELSE 0
        /\ rs.pc \in {"return", "done"} => (rs.i = rs.steps \/ InvalidConfig)
        /\ rs.pc \in {"control", "modify", "actuate", "step"} =>
             rs.actual = motor.VelocityRPM
        /\ rs.pc \in {"signals", "append"} =>
             /\ rs.tr.Actual = rs.actual
             /\ motor.VelocityRPM =
                  VelocityAfter(rs.actual, rs.u, DisturbanceOfStep(rs.i + 1))
        /\ \A k \in 1..Len(rs.out) :
             /\ wrap.present =>
                  SampleSignals(rs, k).pairs =
                      {<<"disturbance_rpm_per_s", DisturbanceOfStep(k)>>}
             /\ LET next == IF k < Len(rs.out) THEN rs.out[k + 1].Actual
                            ELSE IF rs.pc \in {"observe", "return", "done"}
                                 THEN motor.VelocityRPM
                                 ELSE rs.actual
                IN  next = VelocityAfter(rs.out[k].Actual, rs.out[k].U, DisturbanceOfStep(k))

\* A finished run of four iterations with a modifier on a disturbed plant:
\* the second sample carries the disturbance that starts at 2 * DT, which at
\* the start of its step, DT, was not yet on.
C19_Witness ==
    /\ rs.pc = "done"
    /\ Len(rs.out) = 4
    /\ cfg.Modifier.kind # "nil"
    /\ wrap.present
    /\ computeDisturbance(cfg.DT, wrap.cfg) = Zero
    /\ SampleSignals(rs, 2).pairs = {<<"disturbance_rpm_per_s", wrap.cfg.MagnitudeRPMPerS>>}
    /\ SampleSignals(rs, 1).pairs = {<<"disturbance_rpm_per_s", Zero>>}
    /\ rs.out[2].Actual # rs.out[1].Actual
    /\ calls.observe = 4 /\ calls.modify = 4 /\ calls.signals = 4

\* A finished run on a decorator whose schedule is enabled, has a nonzero
\* magnitude and starts after time 0.
ScheduledRun ==
    /\ rs.pc = "done"
    /\ wrap.present
    /\ wrap.cfg.Enabled /\ wrap.cfg.MagnitudeRPMPerS # Zero
    /\ RGt(wrap.cfg.StartS, Zero)

\* Step i of the run (i = 0 for the first) was integrated under a disturbance.
DisturbedStep(i) ==
    SampleSignals(rs, i + 1).pairs # {<<"disturbance_rpm_per_s", Zero>>}

\* The steps of the run whose start time i * DT is at or after StartS.
StepsStartingInSchedule ==
    {i \in 0..(Len(rs.out) - 1) : RGe(RMul(R(i), cfg.DT), wrap.cfg.StartS)}

\* The first of them.
FirstStepStartingInSchedule ==
    CHOOSE i \in StepsStartingInSchedule : \A j \in StepsStartingInSchedule : i <= j

\* C23 as claimed: the disturbance turns on one step after the first step
\* whose start time is at or after StartS.
C23_Original ==
    (ScheduledRun /\ StepsStartingInSchedule # {}) =>
        \A i \in 0..(Len(rs.out) - 1) :
            i <= FirstStepStartingInSchedule => ~DisturbedStep(i)

\* C23: every step runs under the value the schedule has at the start of the
\* next step, so the disturbance turns on in the step before the first step
\* whose start time is at or after StartS (when the window still holds that
\* start time), one step earlier than under an evaluation at the start time,
\* and in no step before that one.
C23_DisturbanceTurnsOnOneStepEarlier ==
    ScheduledRun =>
        /\ \A i \in 0..(Len(rs.out) - 1) :
             SampleSignals(rs, i + 1).pairs =
                 {<<"disturbance_rpm_per_s",
                    computeDisturbance(RMul(R(i + 1), cfg.DT), wrap.cfg)>>}
        /\ StepsStartingInSchedule # {} =>
             LET first == FirstStepStartingInSchedule
             IN  /\ first >= 1
                 /\ DisturbedStep(first - 1) <=>
                      computeDisturbance(RMul(R(first), cfg.DT), wrap.cfg) # Zero
                 /\ \A i \in 0..(first - 2) : ~DisturbedStep(i)

\* A run whose disturbance is on in the step that starts before StartS and
\* ends at it, and in no earlier step.
C23_Witness ==
    /\ ScheduledRun
    /\ StepsStartingInSchedule # {}
    /\ FirstStepStartingInSchedule = 3
    /\ RMul(R(3), cfg.DT) = wrap.cfg.StartS
    /\ DisturbedStep(2)
    /\ ~DisturbedStep(1)
    /\ ~DisturbedStep(0)

\* Both runs of the caller and the one long run have returned.
BothRunsDone == last.op = "RunStep" /\ rs.pc = "done" /\ shadow.rs.pc = "done"

\* The fields of sample k of the frame r other than its timestamp, with the
\* content of its Signals.
SampleFields(r, k) ==
    [f \in DOMAIN r.out[k] \ {"T"} |->
        IF f = "Signals" THEN SampleSignals(r, k) ELSE r.out[k][f]]

\* C29: RunStep resets neither the controller nor the plant nor the
\* decorator's clock: two calls in a row of N steps each, on the same
\* objects, give, one after the other, the samples of one call of 2N steps
\* but for the timestamps, which start at 0 again, and leave the controller
\* and the system in the state the long call leaves them in; the second
\* call starts with the integral and previous error the first one left.
C29_TwoRunsContinueAsOne ==
    /\ (last.op = "RunStep" /\ Len(last.rs.out) > 0) => ctrl.hasPrev
    /\ (last.op = "RunStep" /\ rs.pc = "observe" /\ rs.i = 0) =>
           ctrl = last.ctrl /\ motor = shadow.motor
    /\ wrap.present => wrap.t = RMul(R(calls.sysStep), cfg.DT)
    /\ BothRunsDone =>
        LET n == Len(last.rs.out)
        IN  /\ Len(rs.out) = n
            /\ Len(shadow.rs.out) = 2 * n
            /\ \A k \in 1..n :
                 /\ SampleFields(last.rs, k) = SampleFields(shadow.rs, k)
                 /\ SampleFields(rs, k) = SampleFields(shadow.rs, n + k)
                 /\ last.rs.out[k].T = shadow.rs.out[k].T
                 /\ rs.out[k].T = RMul(R(k - 1), cfg.DT)
                 /\ shadow.rs.out[n + k].T = RMul(R(n + k - 1), cfg.DT)
            /\ motor = shadow.motor
            /\ ctrl = shadow.ctrl
            /\ wrap = shadow.wrap

\* Two runs of two steps under a schedule that starts with the second run's
\* first step: the second run starts with an integral wound up by the first
\* and records the disturbance, and its timestamps start at 0 again.
C29_Witness ==
    /\ BothRunsDone
    /\ Len(rs.out) = 2
    /\ last.ctrl.integral # Zero
    /\ wrap.present /\ RGt(wrap.t, wrap.cfg.StartS)
    /\ SampleSignals(last.rs, 2).pairs = {<<"disturbance_rpm_per_s", Zero>>}
    /\ SampleSignals(rs, 1).pairs = {<<"disturbance_rpm_per_s", R(50)>>}
    /\ rs.out[1].T = Zero
    /\ shadow.rs.out[3].T # Zero
    /\ rs.out[1].I # Zero

-----------------------------------------------------------------------------
(* Properties of Controller.Step                                           *)

StepWasCalled == last.op = "Step"

LastError == RSub(last.target, last.actual)

\* C5: Controller.Step with dt <= 0 returns 0, fills the trace with target,
\* measurement and error only, and leaves integral, prevError and hasPrev as
\* they were.
C5_NonPositiveDTIsNoOp ==
    (StepWasCalled /\ RLe(last.dt, Zero)) =>
        /\ last.ret = Zero
        /\ last.tr = [ Target |-> last.target, Actual |-> last.actual,
                       Error |-> LastError,
                       P |-> Zero, I |-> Zero, D |-> Zero,
                       OutRaw |-> Zero, Out |-> Zero,
                       Saturated |-> FALSE, Integrated |-> FALSE ]
        /\ ctrl.integral = last.pre.integral
        /\ ctrl.prevError = last.pre.prevError
        /\ ctrl.hasPrev = last.pre.hasPrev

\* A warm controller with a nonzero integral is called with dt <= 0.
C5_Witness ==
    /\ StepWasCalled
    /\ RLe(last.dt, Zero)
    /\ last.pre.hasPrev
    /\ last.pre.integral # Zero
    /\ LastError # last.pre.prevError

FirstStep == StepWasCalled /\ RGt(last.dt, Zero) /\ ~last.pre.hasPrev

\* C6 as claimed: on the first Step with dt > 0 of a new controller D = 0 and
\* the output is clamp(Kp * error, OutMin, OutMax), for all gains.
C6_Original ==
    FirstStep =>
        /\ last.tr.D = Zero
        /\ last.ret = clamp(RMul(ctrl.Kp, LastError), ctrl.OutMin, ctrl.OutMax)

\* C6 amended: on the first Step with dt > 0 of a new controller D = 0 for all
\* gains, and the output is clamp(Kp * error + Ki * integral, OutMin, OutMax),
\* where integral is error * dt when the step integrated and 0 when the
\* anti-windup froze it; it is clamp(Kp * error, OutMin, OutMax) when Ki = 0
\* or the integral was frozen.
C6_FirstStepHasNoDerivative ==
    FirstStep =>
        LET integral == IF last.tr.Integrated THEN RMul(LastError, last.dt) ELSE Zero
            p        == RMul(ctrl.Kp, LastError)
        IN  /\ last.tr.D = Zero
            /\ ctrl.integral = integral
            /\ last.ret = clamp(RAdd(p, RMul(ctrl.Ki, integral)), ctrl.OutMin, ctrl.OutMax)
            /\ (ctrl.Ki = Zero \/ ~last.tr.Integrated) =>
                 last.ret = clamp(p, ctrl.OutMin, ctrl.OutMax)

\* A first step with Kd # 0 and a nonzero error, and one whose integral term
\* moves the output away from clamp(P).
C6_Witness ==
    /\ FirstStep
    /\ ctrl.Kd # Zero
    /\ ctrl.Ki # Zero
    /\ LastError # Zero
    /\ last.ret # clamp(RMul(ctrl.Kp, LastError), ctrl.OutMin, ctrl.OutMax)

\* C7: after a Step with dt > 0 on a controller with OutMin <= OutMax the
\* trace is consistent: Error = Target - Actual, OutRaw = P + I + D,
\* Out = clamp(OutRaw) within [OutMin, OutMax], the returned command is Out,
\* and Saturated holds exactly when Out differs from OutRaw.
C7_TraceIsConsistent ==
    (StepWasCalled /\ RGt(last.dt, Zero) /\ RLe(ctrl.OutMin, ctrl.OutMax)) =>
        LET tr == last.tr
        IN  /\ tr.Target = last.target
            /\ tr.Actual = last.actual
            /\ tr.Error = RSub(tr.Target, tr.Actual)
            /\ tr.OutRaw = RAdd(RAdd(tr.P, tr.I), tr.D)
            /\ tr.Out = Clamped(tr.OutRaw, ctrl.OutMin, ctrl.OutMax)
            /\ RLe(ctrl.OutMin, tr.Out)
            /\ RLe(tr.Out, ctrl.OutMax)
            /\ last.ret = tr.Out
            /\ tr.Saturated <=> (tr.Out # tr.OutRaw)

\* A warm step that saturates at the lower bound with all three terms nonzero.
C7_Witness ==
    /\ StepWasCalled
    /\ RGt(last.dt, Zero)
    /\ RLe(ctrl.OutMin, ctrl.OutMax)
    /\ last.pre.hasPrev
    /\ last.tr.Saturated
    /\ last.tr.Out = ctrl.OutMin
    /\ last.tr.P # Zero
    /\ last.tr.I # Zero
    /\ last.tr.D # Zero

\* P + D + Ki * (the integral before the last Step).
Predicted ==
    RAdd(RAdd(last.tr.P, last.tr.D), RMul(last.pre.Ki, last.pre.integral))

\* The last Step would have wound the integral further into saturation.
WindsUp ==
    \/ RGe(Predicted, last.pre.OutMax) /\ RGt(last.tr.Error, Zero)
    \/ RLe(Predicted, last.pre.OutMin) /\ RLt(last.tr.Error, Zero)

\* C20: a Step with dt > 0 whose predicted output P + D + Ki * integral is at
\* or beyond OutMax with error > 0, or at or beyond OutMin with error < 0,
\* leaves the integral as it was and reports Integrated false; every other
\* Step with dt > 0 adds error * dt to the integral and reports Integrated
\* true.
C20_AntiWindupFreezesIntegral ==
    (StepWasCalled /\ RGt(last.dt, Zero)) =>
        IF WindsUp
        THEN ctrl.integral = last.pre.integral /\ ~last.tr.Integrated
        ELSE /\ ctrl.integral =
                  RAdd(last.pre.integral, RMul(last.tr.Error, last.dt))
             /\ last.tr.Integrated

\* A controller's third Step, predicted at or beyond OutMax under a negative
\* error: it integrates, which unwinds the integral.
C20_Witness ==
    /\ StepWasCalled /\ RGt(last.dt, Zero)
    /\ RLt(last.pre.OutMin, last.pre.OutMax)
    /\ RGe(Predicted, last.pre.OutMax)
    /\ RLt(last.tr.Error, Zero)
    /\ last.tr.Integrated
    /\ RLt(ctrl.integral, last.pre.integral)
    /\ calls.ctrlStep = 3

\* The errors of the Steps with dt > 0 made so far, in call order.
StepErrors == calls.stepErrors

\* C21: the controller is warm exactly when a Step with dt > 0 has been made,
\* its previous error is then the error of the latest such Step, and a Step
\* with dt > 0 on a warm controller has D = Kd * (error - e_prev) / dt for the
\* error e_prev of the latest earlier Step with dt > 0, while on a cold one
\* D is 0.
C21_WarmDerivativeUsesLatestError ==
    /\ ctrl.hasPrev <=> Len(StepErrors) > 0
    /\ ctrl.hasPrev => ctrl.prevError = StepErrors[Len(StepErrors)]
    /\ (StepWasCalled /\ RGt(last.dt, Zero)) =>
         LET n == Len(StepErrors)
         IN  /\ last.tr.Error = StepErrors[n]
             /\ last.tr.D =
                  IF n = 1 THEN Zero
                  ELSE RDiv(RMul(last.pre.Kd, RSub(last.tr.Error, StepErrors[n - 1])),
                            last.dt)

\* A warm Step with a nonzero derivative term, made by a controller that has
\* also been called with dt <= 0.
C21_Witness ==
    /\ StepWasCalled /\ RGt(last.dt, Zero)
    /\ calls.ctrlStep = 3
    /\ Len(StepErrors) = 2
    /\ StepErrors[1] # StepErrors[2]
    /\ last.pre.hasPrev
    /\ last.tr.D # Zero

\* C25: a Step with dt > 0 on a controller with OutMin <= OutMax that reports
\* Integrated false leaves the integral as it was and returns OutMax when
\* the error is positive and OutMin when the error is negative.
C25_FrozenStepIsPinnedAtBound ==
    ( /\ StepWasCalled /\ RGt(last.dt, Zero)
      /\ RLe(last.pre.OutMin, last.pre.OutMax)
      /\ ~last.tr.Integrated ) =>
        /\ ctrl.integral = last.pre.integral
        /\ last.tr.Error # Zero
        /\ RGt(last.tr.Error, Zero) =>
             last.ret = last.pre.OutMax /\ last.tr.Out = last.pre.OutMax
        /\ RLt(last.tr.Error, Zero) =>
             last.ret = last.pre.OutMin /\ last.tr.Out = last.pre.OutMin

\* A Step that finds an integral wound up by an earlier Step, is predicted
\* beyond OutMax under a positive error, and freezes.
C25_Witness ==
    /\ StepWasCalled /\ RGt(last.dt, Zero)
    /\ RLt(last.pre.OutMin, last.pre.OutMax)
    /\ ~last.tr.Integrated
    /\ RGt(last.tr.Error, Zero)
    /\ last.pre.integral # Zero
    /\ RLt(last.tr.P, last.pre.OutMax)
    /\ RGt(last.tr.OutRaw, last.pre.OutMax)
    /\ last.ret = last.pre.OutMax

\* The last call was a Step that did not integrate.
FrozenStep == StepWasCalled /\ ~last.tr.Integrated

\* C26: under a constant positive error with Kp >= 0, Ki > 0, dt > 0 and a
\* finite OutMax, the Steps reach one that reports Integrated false; every
\* Step after it reports Integrated false as well, leaves the integral as it
\* was and returns OutMax, so Ki * integral never exceeds the room there was
\* under OutMax by more than one Step's worth.
C26_ConstantErrorFreezesForGood ==
    /\ <>FrozenStep
    /\ [](FrozenStep => /\ last.ret = ctrl.OutMax
                        /\ ctrl.integral = last.pre.integral)
    /\ [][FrozenStep => /\ ~last'.tr.Integrated
                        /\ ctrl'.integral = ctrl.integral
                        /\ last'.ret = ctrl.OutMax]_vars
    /\ [](\E dt \in WindupDTs :
            RLe(RMul(ctrl.Ki, ctrl.integral),
                RAdd(RMax(Zero, RSub(ctrl.OutMax, RMul(ctrl.Kp, cfg.TargetRPM))),
                     RMul(ctrl.Ki, RMul(cfg.TargetRPM, dt)))))

\* A Step that does not integrate, made after a Step that did not integrate
\* either and after Steps that wound the integral up.
C26_Witness ==
    /\ FrozenStep
    /\ RGt(LastError, Zero)
    /\ calls.ctrlStep >= 4
    /\ last.pre.integral # Zero
    /\ ctrl.integral = last.pre.integral
    /\ RLt(last.tr.P, ctrl.OutMax)
    /\ last.ret = ctrl.OutMax
    /\ RLt(ctrl.OutMin, ctrl.OutMax)

-----------------------------------------------------------------------------
(* Properties of DCMotor                                                   *)

\* C8: the stored applied voltage stays within [-MaxVoltage, +MaxVoltage];
\* Actuate(u) stores u clamped into that range and leaves the velocity and
\* the disturbance alone.
C8_AppliedVoltageWithinLimits ==
    /\ RLe(RNeg(motor.MaxVoltage), motor.appliedVoltage)
    /\ RLe(motor.appliedVoltage, motor.MaxVoltage)
    /\ last.op = "Actuate" =>
         /\ motor.appliedVoltage =
                Clamped(last.arg, RNeg(motor.MaxVoltage), motor.MaxVoltage)
         /\ motor.VelocityRPM = last.pre.VelocityRPM
         /\ motor.disturbanceRPMPerS = last.pre.disturbanceRPMPerS

\* An Actuate beyond the limit, on a moving motor under a disturbance.
C8_Witness ==
    /\ last.op = "Actuate"
    /\ last.arg = R(-30)
    /\ motor.appliedVoltage = R(-24)
    /\ motor.disturbanceRPMPerS # Zero
    /\ calls.sysStep > 0

MotorStepped == last.op = "Step"

\* C9: DCMotor.Step(dt) changes nothing for dt <= 0; for dt > 0 the velocity
\* becomes v + (dt/Tau) * (Gain * V - v) - d * dt while the applied voltage
\* and the stored disturbance stay, so the disturbance acts on every later
\* Step (from rest with V = 10, d = 50, dt = 0.001: 1.95, then 3.8961).
C9_StepIntegrates ==
    MotorStepped =>
        LET dt == last.arg
            v  == last.pre.VelocityRPM
            V  == last.pre.appliedVoltage
            d  == last.pre.disturbanceRPMPerS
        IN  /\ RLe(dt, Zero) => motor = last.pre
            /\ RGt(dt, Zero) =>
                 /\ motor.VelocityRPM =
                        RSub(RAdd(v, RMul(RDiv(dt, motor.TauSeconds),
                                          RSub(RMul(motor.GainRPMPerVolt, V), v))),
                             RMul(d, dt))
                 /\ motor.appliedVoltage = V
                 /\ motor.disturbanceRPMPerS = d
            /\ (dt = Q(1, 1000) /\ V = R(10) /\ d = R(50) /\ v = Zero) =>
                 motor.VelocityRPM = Q(195, 100)
            /\ (dt = Q(1, 1000) /\ V = R(10) /\ d = R(50) /\ v = Q(195, 100)) =>
                 motor.VelocityRPM = Q(38961, 10000)

\* The second Step of the run Actuate(10), SetDisturbance(50), Step, Step.
C9_Witness ==
    /\ MotorStepped
    /\ last.arg = Q(1, 1000)
    /\ calls.sysStep = 2
    /\ calls.setDisturbance = 1
    /\ calls.actuate = 1
    /\ motor.disturbanceRPMPerS = R(50)
    /\ motor.VelocityRPM = Q(38961, 10000)

\* Gain * V - d * Tau for the voltage and disturbance the last Step ran under.
SteadyState ==
    RSub(RMul(motor.GainRPMPerVolt, last.pre.appliedVoltage),
         RMul(last.pre.disturbanceRPMPerS, motor.TauSeconds))

\* The long run's velocity after SteadySteps Steps is within 0.1 RPM of 975;
\* after one and two Steps it is 1.95 and 3.8961, as the exact Step gives.
LongRunSettles ==
    /\ InLongRun => enclosure.lo <= enclosure.hi
    /\ enclosure.n = 1 => (enclosure.lo = 1950000 /\ enclosure.hi = 1950000)
    /\ enclosure.n = 2 => (enclosure.lo = 3896100 /\ enclosure.hi = 3896100)
    /\ enclosure.n = SteadySteps =>
         /\ 975000000 - 100000 <= enclosure.lo
         /\ enclosure.hi <= 975000000 + 100000

\* C10: v_ss = Gain * V - d * Tau is a fixed point of Step, every Step with
\* dt > 0 multiplies velocity - v_ss by 1 - dt/Tau, and for 0 < dt < Tau the
\* velocity moves toward v_ss without reaching or passing it; from rest with
\* V = 10, d = 50 and dt = 0.001 it is within 0.1 RPM of 975 after 10000 Steps.
C10_StepContractsTowardSteadyState ==
    /\ LongRunSettles
    /\ (MotorStepped /\ RGt(last.arg, Zero) /\ ~InLongRun) =>
        LET dt   == last.arg
            v    == last.pre.VelocityRPM
            vss  == SteadyState
            dist == RSub(motor.VelocityRPM, vss)
        IN  /\ dist = RMul(RSub(R(1), RDiv(dt, motor.TauSeconds)), RSub(v, vss))
            /\ v = vss => motor.VelocityRPM = vss
            /\ RLt(dt, motor.TauSeconds) =>
                 /\ RLt(v, vss) => (RLt(v, motor.VelocityRPM) /\ RLt(motor.VelocityRPM, vss))
                 /\ RGt(v, vss) => (RGt(v, motor.VelocityRPM) /\ RGt(motor.VelocityRPM, vss))

\* A Step under a nonzero disturbance that starts away from v_ss, after one
\* that started at v_ss.
C10_Witness ==
    /\ MotorStepped
    /\ RGt(last.arg, Zero)
    /\ RLt(last.arg, motor.TauSeconds)
    /\ last.pre.disturbanceRPMPerS # Zero
    /\ last.pre.VelocityRPM # SteadyState
    /\ calls.sysStep = 2

C10_FixedPointWitness ==
    /\ MotorStepped
    /\ RGt(last.arg, Zero)
    /\ last.pre.VelocityRPM = SteadyState
    /\ SteadyState # Zero
    /\ motor.VelocityRPM = SteadyState

-----------------------------------------------------------------------------
(* Properties of the modifiers                                             *)

ModifyWasCalled == last.op = "Modify"

Sign(a) == IF RGt(a, Zero) THEN R(1) ELSE IF RLt(a, Zero) THEN R(-1) ELSE Zero

\* C11: for a threshold th >= 0, DeadzoneModifier.Modify(u) is 0 when
\* |u| <= th, is sign(u) * (|u| - th) when |u| >= th, and Modify(-u) is
\* -Modify(u).
C11_DeadzoneShrinksTowardZero ==
    ( /\ ModifyWasCalled
      /\ cfg.Modifier.kind = "deadzone"
      /\ RGe(cfg.Modifier.Threshold, Zero) ) =>
        LET th == cfg.Modifier.Threshold
            u  == last.arg
        IN  /\ RLe(RAbs(u), th) => last.ret = Zero
            /\ RGe(RAbs(u), th) => last.ret = RMul(Sign(u), RSub(RAbs(u), th))
            /\ DeadzoneModifier_Modify(cfg.Modifier, RNeg(u)) = RNeg(last.ret)

\* A command outside the band of a positive threshold has been shifted.
C11_Witness ==
    /\ ModifyWasCalled
    /\ cfg.Modifier = DeadzoneModifier(Q(5, 2))
    /\ last.arg = Q(-13, 5)
    /\ last.ret = Q(-1, 10)

\* The modifiers of the chain called, in argument order.
ChainModifiers == cfg.Modifier.modifiers

\* C12: Chain(m1, ..., mn).Modify(u) is mn.Modify(... m1.Modify(u) ...):
\* Chain() is no nil modifier and returns every input as it is, and Chain(m)
\* returns what m returns.
C12_ChainAppliesInArgumentOrder ==
    (ModifyWasCalled /\ cfg.Modifier.kind = "chain") =>
        LET ms == ChainModifiers
            u  == last.arg
        IN  /\ cfg.Modifier # NilModifier
            /\ Len(ms) = 0 => last.ret = u
            /\ Len(ms) = 1 => last.ret = Modify(ms[1], u)
            /\ Len(ms) = 2 => last.ret = Modify(ms[2], Modify(ms[1], u))
            /\ Len(ms) = 3 => last.ret = Modify(ms[3], Modify(ms[2], Modify(ms[1], u)))

\* A chain whose two modifiers give another result in the other order:
\* Chain(dz(1), dz(-1)) takes 0.5 to 0 and then to -1, the other order to 0.5.
C12_Witness ==
    /\ ModifyWasCalled
    /\ cfg.Modifier = Chain(<<DeadzoneModifier(R(1)), DeadzoneModifier(R(-1))>>)
    /\ last.arg = Q(1, 2)
    /\ last.ret = R(-1)
    /\ Modify(Chain(<<DeadzoneModifier(R(-1)), DeadzoneModifier(R(1))>>), last.arg) = Q(1, 2)

\* Modify was called on a chain of two deadzones with thresholds >= 0.
TwoDeadzonesCalled ==
    /\ ModifyWasCalled
    /\ cfg.Modifier.kind = "chain"
    /\ Len(ChainModifiers) = 2
    /\ \A i \in 1..2 : /\ ChainModifiers[i].kind = "deadzone"
                       /\ RGe(ChainModifiers[i].Threshold, Zero)

\* C28: for thresholds a >= 0 and b >= 0 and every command u, the chain of
\* deadzone(a) and deadzone(b) returns what the chain in the other order
\* returns and what deadzone(a + b) returns; the result is no larger in
\* magnitude than u and never of the opposite sign.
C28_DeadzoneChainAddsThresholds ==
    TwoDeadzonesCalled =>
        LET a == ChainModifiers[1].Threshold
            b == ChainModifiers[2].Threshold
            u == last.arg
        IN  /\ last.ret = Modify(Chain(<<DeadzoneModifier(b), DeadzoneModifier(a)>>), u)
            /\ last.ret = Modify(DeadzoneModifier(RAdd(a, b)), u)
            /\ RLe(RAbs(last.ret), RAbs(u))
            /\ Sign(last.ret) = Zero \/ Sign(last.ret) = Sign(u)

\* A negative command that the first deadzone lets through shifted and the
\* second, with another threshold, shifts again.
C28_Witness ==
    /\ TwoDeadzonesCalled
    /\ ChainModifiers[1].Threshold = Q(5, 2)
    /\ ChainModifiers[2].Threshold = Q(1, 2)
    /\ last.arg = R(-5)
    /\ last.ret = R(-2)
    /\ Modify(DeadzoneModifier(R(3)), last.arg) = R(-2)

-----------------------------------------------------------------------------
(* Properties of the DisturbedSystem                                       *)

WrapStepped == last.op = "WrapStep"

\* The time the schedule was evaluated at by the last Step.
ScheduleTime == RAdd(last.pre.wrap.t, last.arg)

InWindow(t, c) ==
    /\ c.Enabled
    /\ c.MagnitudeRPMPerS # Zero
    /\ RGe(t, c.StartS)
    /\ (RLe(c.DurationS, Zero) \/ RLt(t, RAdd(c.StartS, c.DurationS)))

\* C13: the schedule evaluated at t' is the configured magnitude when Enabled,
\* the magnitude is nonzero, t' >= StartS and (DurationS <= 0 or
\* t' < StartS + DurationS), and 0 in every other case.
C13_ScheduleIsHalfOpenWindow ==
    WrapStepped =>
        wrap.lastDisturbanceRPMPerS =
            IF InWindow(ScheduleTime, wrap.cfg) THEN wrap.cfg.MagnitudeRPMPerS ELSE Zero

\* A Step that evaluates the schedule at the very end of a bounded window,
\* after one that evaluated it at the window's start.
C13_Witness ==
    /\ WrapStepped
    /\ RGt(wrap.cfg.DurationS, Zero)
    /\ wrap.cfg.Enabled /\ wrap.cfg.MagnitudeRPMPerS # Zero
    /\ ScheduleTime = RAdd(wrap.cfg.StartS, wrap.cfg.DurationS)
    /\ last.pre.wrap.t = wrap.cfg.StartS
    /\ last.pre.wrap.lastDisturbanceRPMPerS = wrap.cfg.MagnitudeRPMPerS
    /\ wrap.lastDisturbanceRPMPerS = Zero

\* C14: ResetTime leaves the elapsed time and the last-reported disturbance
\* at 0 and the inner system and the config as they were; from then on the
\* wrapper's time, the disturbance it reports and the disturbance its Steps
\* push into the inner system are those of a freshly constructed wrapper
\* with the same config given the same calls.
C14_ResetTimeIsAsFresh ==
    /\ last.op = "WrapResetTime" =>
         /\ wrap.t = Zero
         /\ wrap.lastDisturbanceRPMPerS = Zero
         /\ wrap.cfg = last.pre.wrap.cfg
         /\ motor = last.pre.motor
    /\ (shadow.present /\ last.op \in {"WrapResetTime", "WrapStep", "WrapObserve",
                                       "WrapActuate", "WrapSignals"}) =>
         /\ wrap.t = shadow.wrap.t
         /\ wrap.lastDisturbanceRPMPerS = shadow.wrap.lastDisturbanceRPMPerS
         /\ DisturbedSystem_Signals(wrap) = DisturbedSystem_Signals(shadow.wrap)
         /\ shadow.steps > 0 =>
              motor.disturbanceRPMPerS = shadow.motor.disturbanceRPMPerS

\* A wrapper reset after its inner motor had moved, stepped again to a time
\* before the window.
C14_Witness ==
    /\ last.op = "WrapStep"
    /\ shadow.present /\ shadow.steps = 1
    /\ wrap.cfg.Enabled /\ RLt(wrap.t, wrap.cfg.StartS) /\ RGt(wrap.t, Zero)
    /\ motor.VelocityRPM # shadow.motor.VelocityRPM
    /\ wrap.lastDisturbanceRPMPerS = Zero
    /\ calls.sysStep >= 2

\* C15: the wrapper's elapsed time never decreases across Observe, Actuate,
\* Signals and Step(dt) calls, whatever dt is passed to Step.  Step adds dt
\* to the time without testing its sign, so Step(-0.25) lowers it.
C15_ElapsedTimeNeverDecreases ==
    last.op \in {"WrapObserve", "WrapActuate", "WrapSignals", "WrapStep"} =>
        RGe(wrap.t, last.pre.wrap.t)

-----------------------------------------------------------------------------
(* Properties of Compute                                                   *)

Computed == last.op = "Compute"

\* The band Compute compares the errors with: |target| * settleBandFrac of
\* the last sample's target, or 1e-9 when that is 0.
SettleBand ==
    LET b == RMul(RAbs(rs.out[Len(rs.out)].Target), last.arg)
    IN  IF b = Zero THEN Q(1, 1000000000) ELSE b

\* From sample i on every error is within the band.
SettledFrom(i) ==
    \A j \in i..Len(rs.out) : RLe(RAbs(rs.out[j].Error), SettleBand)

\* C16: for a non-empty sequence the settling time is the timestamp of the
\* first index from which every error is within the band, and NaN when there
\* is no such index; for the empty sequence it is NaN.
C16_SettlingTimeIsFirstLastingEntry ==
    Computed =>
        LET n == Len(rs.out)
        IN  IF n = 0 \/ ~(\E i \in 1..n : SettledFrom(i))
            THEN last.ret.SettlingTimeSeconds = NaN
            ELSE LET first == CHOOSE i \in 1..n :
                                /\ SettledFrom(i)
                                /\ \A k \in 1..(i - 1) : ~SettledFrom(k)
                 IN  last.ret.SettlingTimeSeconds = rs.out[first].T

\* A sequence that enters the band, leaves it and enters it again for good:
\* the settling time is the timestamp of the second entry.
C16_Witness ==
    /\ Computed
    /\ Len(rs.out) = 3
    /\ RLe(RAbs(rs.out[1].Error), SettleBand)
    /\ RGt(RAbs(rs.out[2].Error), SettleBand)
    /\ RLe(RAbs(rs.out[3].Error), SettleBand)
    /\ RAbs(rs.out[3].Error) = SettleBand
    /\ last.ret.SettlingTimeSeconds = Q(1, 5)

\* The largest measurement of the sequence handed to Compute.
LargestActual ==
    LET as == {rs.out[i].Actual : i \in 1..Len(rs.out)}
    IN  CHOOSE a \in as : \A b \in as : RLe(b, a)

\* C17: for a non-empty sequence Compute takes the target from the last
\* sample and the maximum over all measurements, and its overshoot percent is
\* max(0, (max - target) / |target| * 100), never negative, and 0 when the
\* target is 0.
C17_OvershootIsClampedRelativeExcess ==
    (Computed /\ Len(rs.out) > 0) =>
        LET target == rs.out[Len(rs.out)].Target
            o      == last.ret.OvershootPercent
        IN  /\ last.ret.Target = target
            /\ last.ret.MaxActual = LargestActual
            /\ RGe(o, Zero)
            /\ target = Zero => o = Zero
            /\ target # Zero =>
                 o = RMax(Zero, RMul(RDiv(RSub(LargestActual, target), RAbs(target)), R(100)))

\* A negative target, other than the first sample's, overshot by a
\* measurement that is not the last one.
C17_Witness ==
    /\ Computed
    /\ Len(rs.out) = 3
    /\ last.ret.Target = R(-1)
    /\ rs.out[1].Target = R(1)
    /\ rs.out[2].Actual = Q(11, 10)
    /\ rs.out[3].Actual = R(-1)
    /\ last.ret.OvershootPercent = R(210)

\* The indices of the samples whose error is outside the band.
OutOfBand ==
    {i \in 1..Len(rs.out) : RGt(RAbs(rs.out[i].Error), SettleBand)}

\* C27: for a non-empty sequence the settling time is a number exactly when
\* the last sample's error is within the band; it is then the timestamp of
\* the sample after the last one outside the band, or of the first sample
\* when none is outside, and never the timestamp of a sample within the band
\* that a sample outside the band follows.
C27_SettlesExactlyWhenLastSampleInBand ==
    (Computed /\ Len(rs.out) > 0) =>
        LET n      == Len(rs.out)
            settle == last.ret.SettlingTimeSeconds
        IN  /\ settle # NaN <=> n \notin OutOfBand
            /\ n \notin OutOfBand =>
                 LET lastOut == IF OutOfBand = {} THEN 0
                                ELSE CHOOSE i \in OutOfBand : \A j \in OutOfBand : j <= i
                 IN  settle = rs.out[lastOut + 1].T
            /\ \A i \in 1..n :
                 (i \notin OutOfBand /\ \E j \in OutOfBand : j > i) =>
                     settle # rs.out[i].T

\* Under a negative target, a sequence whose first sample is within the band,
\* whose second is outside and whose third is strictly within: the settling
\* time is the third sample's timestamp, not the first's.
C27_Witness ==
    /\ Computed
    /\ Len(rs.out) = 3
    /\ last.ret.Target = R(-1)
    /\ RGt(last.arg, Zero)
    /\ OutOfBand = {2}
    /\ RLt(RAbs(rs.out[3].Error), SettleBand)
    /\ last.ret.SettlingTimeSeconds = rs.out[3].T
    /\ last.ret.SettlingTimeSeconds # rs.out[1].T

\* The samples handed to Compute with every target, measurement and error
\* negated.
NegatedSamples ==
    [i \in 1..Len(rs.out) |->
        [rs.out[i] EXCEPT !.Target = RNeg(@), !.Actual = RNeg(@), !.Error = RNeg(@)]]

\* C30: the overshoot percent does not depend on the sign of the target:
\* Compute returns the same overshoot for the samples with every target and
\* measurement negated, and overshoot 0 for a negative target that no
\* measurement has gone below.
C30_OvershootIgnoresTargetSign ==
    (Computed /\ Len(rs.out) > 0) =>
        /\ Compute(NegatedSamples, last.arg).OvershootPercent = last.ret.OvershootPercent
        /\ ( /\ RLt(last.ret.Target, Zero)
             /\ \A i \in 1..Len(rs.out) : RGe(rs.out[i].Actual, last.ret.Target) ) =>
               last.ret.OvershootPercent = Zero

\* The velocity of the motor m after Step(dt) under the disturbance d.
SteppedVelocity(m, d, dt) ==
    IF RLe(dt, Zero) THEN m.VelocityRPM
    ELSE RSub(RAdd(m.VelocityRPM,
                   RMul(RDiv(dt, m.TauSeconds),
                        RSub(RMul(m.GainRPMPerVolt, m.appliedVoltage), m.VelocityRPM))),
              RMul(d, dt))

\* C22: Step(dt) evaluates the schedule at t + dt for the elapsed time t from
\* before the call and records the value as the last disturbance whatever
\* the inner system is; an inner DisturbanceReceiver is given the value
\* before its Step(dt), so it steps under it, and any other inner system
\* steps as it is; then t is t + dt.  Signals() reports the last disturbance
\* under disturbance_rpm_per_s, which is 0 before any Step.
C22_StepSchedulesThenPushesThenSteps ==
    /\ WrapStepped =>
         LET dist == computeDisturbance(ScheduleTime, last.pre.wrap.cfg)
         IN  /\ wrap.lastDisturbanceRPMPerS = dist
             /\ wrap.t = ScheduleTime
             /\ wrap.receiver =>
                  /\ motor.disturbanceRPMPerS = dist
                  /\ motor.VelocityRPM = SteppedVelocity(last.pre.motor, dist, last.arg)
             /\ ~wrap.receiver =>
                  /\ motor.disturbanceRPMPerS = last.pre.motor.disturbanceRPMPerS
                  /\ motor.VelocityRPM =
                       SteppedVelocity(last.pre.motor, last.pre.motor.disturbanceRPMPerS,
                                       last.arg)
    /\ last.op = "WrapSignals" =>
         /\ last.ret = {<<"disturbance_rpm_per_s", wrap.lastDisturbanceRPMPerS>>}
         /\ wrap = last.pre.wrap
    /\ (last.op \in {"none", "WrapObserve", "WrapActuate", "WrapSignals"}
          /\ calls.sysStep = 0 /\ calls.resetTime = 0) =>
         wrap.lastDisturbanceRPMPerS = Zero

\* A Step with dt > 0 that turns the disturbance of a moving inner motor off
\* again.
C22_Witness ==
    /\ WrapStepped /\ RGt(last.arg, Zero)
    /\ wrap.receiver
    /\ last.pre.motor.disturbanceRPMPerS # Zero
    /\ last.pre.motor.VelocityRPM # Zero
    /\ wrap.lastDisturbanceRPMPerS = Zero
    /\ motor.VelocityRPM # last.pre.motor.VelocityRPM

\* The schedule of the wrapper never applies a disturbance.
ScheduleOff == ~wrap.cfg.Enabled \/ wrap.cfg.MagnitudeRPMPerS = Zero

\* C24: Observe returns the inner motor's measurement and changes nothing,
\* Actuate hands its command to the inner motor and leaves the wrapper's time
\* and last disturbance alone, and with the schedule disabled or of
\* magnitude 0 a wrapped motor that started with no disturbance measures,
\* after any calls, what a bare motor given the same calls measures.
C24_DecoratorIsTransparent ==
    /\ last.op = "WrapObserve" =>
         /\ last.ret = last.pre.motor.VelocityRPM
         /\ wrap = last.pre.wrap
         /\ motor = last.pre.motor
    /\ last.op = "WrapActuate" =>
         /\ wrap = last.pre.wrap
         /\ motor = [last.pre.motor EXCEPT !.appliedVoltage =
                       RMin(RMax(last.arg, RNeg(last.pre.motor.MaxVoltage)),
                            last.pre.motor.MaxVoltage)]
    /\ (shadow.present /\ ~shadow.wrap.present /\ ScheduleOff) =>
         /\ motor.VelocityRPM = shadow.motor.VelocityRPM
         /\ last.op = "WrapObserve" => last.ret = shadow.motor.VelocityRPM

\* A disabled schedule of nonzero magnitude, whose time is past StartS, around
\* a motor that has been actuated and has moved: Observe returns the bare
\* motor's velocity.
C24_Witness ==
    /\ last.op = "WrapObserve"
    /\ shadow.present /\ ~shadow.wrap.present
    /\ ~wrap.cfg.Enabled /\ wrap.cfg.MagnitudeRPMPerS # Zero
    /\ RGt(wrap.t, wrap.cfg.StartS)
    /\ motor.appliedVoltage # Zero
    /\ calls.sysStep >= 2
    /\ last.ret = shadow.motor.VelocityRPM
    /\ last.ret # Zero

====
